---------------------------- MODULE Spec2Model ----------------------------
(***************************************************************************)
(* A model of the signal / risk engine of nyx_trial.                       *)
(*                                                                         *)
(* Units.  Lot sizes are integers counting hundredths of a lot (0.01 lot   *)
(* = 1), money is in whole account-currency units, percentages are whole   *)
(* percents, prices are integers counting pips of the symbol (half pips    *)
(* in a setup or signal, millionths in a tracked signal), time is in       *)
(* whole hours (signal tracker) or whole days (risk manager).  A value     *)
(* that the code holds as a float and that need not be a whole number of   *)
(* units (the unrounded lot size) is kept as an exact fraction [n, d].     *)
(*                                                                         *)
(* Each component has its own specification (SpecSizing, SpecRisk, ...);   *)
(* the variables of the other components stay at their idle values.        *)
(***************************************************************************)
EXTENDS Integers, Sequences, FiniteSets, TLC

VARIABLES
    sizeIn,      \* calculate_position_size: the arguments and collaborator answers
    sizeOut,     \* calculate_position_size: the returned lot size, or "none"
    today,       \* risk manager: the current UTC day (day 0 is a Monday)
    elapsed,     \* risk manager: days passed since the start
    trades,      \* risk manager: the account's closed trades, [day, profit]
    riskOut,     \* check_risk_limits: what the last call read and returned, or "none"
    accounts,    \* trade copier: the MT5Account rows, account id -> row
    signal,      \* trade copier: the signal to distribute, "none" once distributed
    approvals,   \* trade copier: the accounts the risk gate approved for the signal
    orders,      \* trade copier: the orders sent to the broker (mt5.order_send)
    scanIn,      \* generate_signal: what the collaborators answer for the symbol
    scanOut,     \* generate_signal: the returned signal, "no signal", or "none"
    assembled,   \* generate_signal: the call of generate_trading_setup it made
    scanLog,     \* generate_signal: the last line it wrote to the log
    clock,       \* signal tracker: the time, in hours
    store,       \* signal tracker: the signal_history table, hash -> row
    emittedAt,   \* signal tracker: hash -> when the setup was last sent to users
    dupOut,      \* is_duplicate: the last call and what it returned, or "none"
    candles,     \* POI detector: the candle series df the feed has delivered
    poiOut,      \* POI detector: the last detect_* call and its outcome, or "none"
    callIn,      \* a single call under study: its arguments and collaborator answers
    callOut,     \* a single call under study: its outcome, or "none"
    connected,   \* heartbeat: whether the broker connection is up
    waited,      \* heartbeat: seconds slept since the last reconnect attempt
    reconnects,  \* heartbeat: the delay before each reconnect attempt since the loss
    queue,       \* message queue: the message_queue table, id -> row
    deliveries,  \* message queue: id -> the delay before each delivery attempt
    recordCalls, \* signal tracker: hash -> the record_signal calls made and written
    runs,        \* message queue: each send_queued_messages run, the rows it still has to send
    delivered,   \* message queue: id -> how often Telegram received the message
    roles,       \* the role of each user (User.role)
    owned,       \* the MT5 account rows, in order of creation
    executions,  \* the orders distribute_signal placed, with the owner's role at the time
    running,     \* main: ProductionTradingBot.running
    shutdown_event, \* main: whether shutdown_event is set
    mainPc,      \* main: where run() and shutdown() stand
    taskPc,      \* main: where each background loop stands
    started,     \* main: the units of work the loops began, and whether running was false
    configs,     \* account manager: the settings objects, object -> credentials held
    active_connections, \* account manager: account id -> cached connector
    connOut,     \* account manager: the last call and what it returned, or "none"
    time,        \* rate limiter: time.time(), in seconds
    calls,       \* rate limiter: user -> the deque of recorded call times
    recent,      \* rate limiter: user -> the times of the latest calls it allowed
    lock,        \* rate limiter: the thread that holds self.lock, or "none"
    threadPc,    \* rate limiter: thread -> the call it is inside, or "none"
    limitOut     \* rate limiter: the last call that returned and its result, or "none"

sizingVars == <<sizeIn, sizeOut>>
riskVars   == <<today, elapsed, trades, riskOut>>
copierVars == <<accounts, signal, approvals, orders>>
scanVars   == <<scanIn, scanOut, assembled, scanLog>>
trackerVars == <<clock, store, emittedAt, dupOut>>
poiVars    == <<candles, poiOut>>
callVars   == <<callIn, callOut>>
retryVars  == <<connected, waited, reconnects, queue, deliveries>>
recordVars == <<recordCalls>>
flushVars  == <<runs, delivered>>
banVars    == <<roles, owned, executions>>
shutVars   == <<running, shutdown_event, mainPc, taskPc, started>>
connVars   == <<configs, active_connections, connOut>>
limVars    == <<time, calls, recent, lock, threadPc, limitOut>>

vars == <<sizeIn, sizeOut, today, elapsed, trades, riskOut,
          accounts, signal, approvals, orders, scanIn, scanOut, assembled, scanLog,
          clock, store, emittedAt, dupOut, candles, poiOut,
          callIn, callOut,
          connected, waited, reconnects, queue, deliveries,
          recordCalls,
          runs, delivered,
          roles, owned, executions,
          running, shutdown_event, mainPc, taskPc, started,
          configs, active_connections, connOut,
          time, calls, recent, lock, threadPc, limitOut>>

\* "no call was made yet": a record, so that it compares with any call record
None == [none |-> TRUE]

Abs(x) == IF x < 0 THEN -x ELSE x

(***************************************************************************)
(* Configuration (config/settings.py).                                     *)
(***************************************************************************)
MIN_LOT_SIZE == 1
MAX_LOT_SIZE == 1000

(***************************************************************************)
(* Exact fractions for float values.                                       *)
(***************************************************************************)
Frac(n, d) == [n |-> n, d |-> d]

\* min(q, m) and max(m, q) of Python, m a whole number, q a fraction with d > 0
MinQ(q, m) == IF m * q.d < q.n THEN Frac(m, 1) ELSE q
MaxQ(m, q) == IF q.n > m * q.d THEN q ELSE Frac(m, 1)

\* Python 3 round(x) of a non-negative x = n/d: to nearest, ties to even
PyRound(n, d) ==
    LET q == n \div d
        r == n % d
    IN  IF 2 * r < d THEN q
        ELSE IF 2 * r > d THEN q + 1
        ELSE IF q % 2 = 0 THEN q ELSE q + 1

(***************************************************************************)
(* MT5Connector.calculate_lot_size (src/data/mt5_connector.py is not part  *)
(* of the available sources): the sizing formula of the specification,     *)
(*   lots = risk_amount / (stop_distance_pips * pip_value_per_lot),        *)
(* with risk_amount = balance * risk_percent / 100.  In hundredths of a    *)
(* lot: balance * risk_percent / (stop_pips * PipValuePerLot).  A zero     *)
(* stop distance is a division by zero.                                    *)
(***************************************************************************)
PipValuePerLot == 10

\* the exception of a division by zero, as a value no fraction equals
ZeroDivisionError == [n |-> 0, d |-> 0]

ConnectorCalculateLotSize(balance, riskPct, stopPips) ==
    IF stopPips = 0 THEN ZeroDivisionError
    ELSE Frac(balance * riskPct, stopPips * PipValuePerLot)

(***************************************************************************)
(* RiskManager.calculate_position_size                                     *)
(***************************************************************************)
\* lot_size = round(lot_size / lot_step) * lot_step
RoundToStep(lot, step) == PyRound(lot.n, lot.d * step) * step

CalculatePositionSize(in) ==
    IF ~in.infoOk THEN MIN_LOT_SIZE
    ELSE IF ~in.symOk THEN MIN_LOT_SIZE
    ELSE LET raw == ConnectorCalculateLotSize(in.balance, in.riskPct,
                                              Abs(in.entry - in.stop))
         IN  IF raw = ZeroDivisionError THEN MIN_LOT_SIZE     \* caught
             ELSE LET capped  == MinQ(raw, in.accMaxLot)
                      floored == MaxQ(MIN_LOT_SIZE, capped)
                      clamped == MinQ(floored, MAX_LOT_SIZE)
                  IN  IF in.step = 0 THEN MIN_LOT_SIZE   \* ZeroDivisionError, caught
                      ELSE RoundToStep(clamped, in.step)


(***************************************************************************)
(* Position sizing as a pure function: the arguments are drawn at the      *)
(* start, the one action applies the function.                             *)
(***************************************************************************)
MaxStopDistance == 3
MaxRiskPct == 2
EntryPips == 100

Balances == {100, 100000}
AccountMaxLots == {50, MAX_LOT_SIZE}     \* getattr(account, 'max_lot_size', MAX_LOT_SIZE)
VolumeSteps == {0, 1, 10}                 \* symbol_info['volume_step']: 0, 0.01, 0.1

SizeInputs ==
    [infoOk : BOOLEAN, symOk : BOOLEAN, balance : Balances,
     riskPct : 1..MaxRiskPct, entry : {EntryPips},
     stop : (EntryPips - MaxStopDistance)..EntryPips,
     accMaxLot : AccountMaxLots, step : VolumeSteps]

IdleSizing == sizeIn = None /\ sizeOut = None

(***************************************************************************)
(* RiskManager: trade history and the risk-limit gate.                     *)
(***************************************************************************)
DaysPerWeek == 7
MarginFloor == 200                  \* account_info['margin_level'] < 200
WeeklyLossPercent == 10             \* max_weekly_loss = balance * 0.10
MAX_DAILY_LOSS_PERCENT == 5         \* MT5Account.max_daily_loss_percent default
MAX_OPEN_POSITIONS == 3             \* MT5Account.max_open_positions default

MaxDays == 2
MaxTrades == 2

Profits == {-51, -50, 30}
RiskBalances == {1000, 2000}
MarginLevels == {MarginFloor - 1, MarginFloor}

RECURSIVE SumProfitSince(_, _)
\* sum(t.profit for t in trades if t.close_time >= start)
SumProfitSince(ts, start) ==
    IF ts = <<>> THEN 0
    ELSE (IF Head(ts).day >= start THEN Head(ts).profit ELSE 0)
         + SumProfitSince(Tail(ts), start)

\* today.weekday(): Monday is 0
Weekday(d) == d % DaysPerWeek

\* get_daily_pnl: closed trades since today 00:00 UTC; 0.0 when the query raises
GetDailyPnl(ts, day, dbOk) == IF dbOk THEN SumProfitSince(ts, day) ELSE 0

\* get_weekly_pnl: closed trades since Monday of this week; 0.0 when the query raises
GetWeeklyPnl(ts, day, dbOk) ==
    IF dbOk THEN SumProfitSince(ts, day - Weekday(day)) ELSE 0

\* MT5Executor.get_position_count: len(get_open_positions()), which is [] when
\* the terminal is not connected or positions_get fails
GetPositionCount(in) == IF in.execOk THEN in.positions ELSE 0

\* balance * (percent / 100), compared without rounding: a * 100 against balance * percent
BelowLossLimit(pnl, balance, percent) == pnl * 100 < -(balance * percent)

\* a gate that counts the open positions before it looks at the daily loss
CheckRiskLimitsPositionsFirst(ts, day, in) ==
    LET daily_pnl == GetDailyPnl(ts, day, in.dailyDbOk)
    IN  IF ~in.infoOk THEN [ok |-> FALSE, reason |-> "Cannot get account info"]
        ELSE IF GetPositionCount(in) >= MAX_OPEN_POSITIONS
             THEN [ok |-> FALSE, reason |-> "Max positions reached"]
        ELSE IF BelowLossLimit(daily_pnl, in.balance, MAX_DAILY_LOSS_PERCENT)
             THEN [ok |-> FALSE, reason |-> "Daily loss limit reached"]
        ELSE IF in.marginLevel < MarginFloor
             THEN [ok |-> FALSE, reason |-> "Low margin level"]
        ELSE IF BelowLossLimit(GetWeeklyPnl(ts, day, in.weeklyDbOk),
                               in.balance, WeeklyLossPercent)
             THEN [ok |-> FALSE, reason |-> "Weekly loss limit reached"]
        ELSE [ok |-> TRUE, reason |-> "All risk checks passed"]

CheckRiskLimits(ts, day, in) ==
    LET daily_pnl == GetDailyPnl(ts, day, in.dailyDbOk)
    IN  IF ~in.infoOk THEN [ok |-> FALSE, reason |-> "Cannot get account info"]
        ELSE IF BelowLossLimit(daily_pnl, in.balance, MAX_DAILY_LOSS_PERCENT)
             THEN [ok |-> FALSE, reason |-> "Daily loss limit reached"]
        ELSE IF GetPositionCount(in) >= MAX_OPEN_POSITIONS
             THEN [ok |-> FALSE, reason |-> "Max positions reached"]
        ELSE IF in.marginLevel < MarginFloor
             THEN [ok |-> FALSE, reason |-> "Low margin level"]
        ELSE IF BelowLossLimit(GetWeeklyPnl(ts, day, in.weeklyDbOk),
                               in.balance, WeeklyLossPercent)
             THEN [ok |-> FALSE, reason |-> "Weekly loss limit reached"]
        ELSE [ok |-> TRUE, reason |-> "All risk checks passed"]

RiskInputs ==
    [infoOk : BOOLEAN, balance : RiskBalances, marginLevel : MarginLevels,
     positions : (MAX_OPEN_POSITIONS - 1)..MAX_OPEN_POSITIONS, execOk : BOOLEAN,
     dailyDbOk : BOOLEAN, weeklyDbOk : BOOLEAN]

IdleRisk == today = 0 /\ elapsed = 0 /\ trades = <<>> /\ riskOut = None

(***************************************************************************)
(* TradeCopier.  A price is a whole number of pips of its symbol; the      *)
(* copier turns a price difference into pips with the fixed factor 10000,  *)
(* so a difference of k pips counts as k * pip_value * 10000 pips.         *)
(***************************************************************************)
NumAccounts == 2
MaxSignalStop == 2

\* SymbolNormalizer.get_pip_value times the copier's 10000
PipsPerPipStandard == 1       \* 0.0001 * 10000
PipsPerPipJPY == 100          \* 0.01 * 10000

CopierPipFactor(symbol) ==
    IF symbol = "USDJPY" THEN PipsPerPipJPY ELSE PipsPerPipStandard

Accounts == 1..NumAccounts

AccountRows ==
    [status : {"active", "pending"}, auto_trade_enabled : BOOLEAN,
     risk_percentage : {1}, balance : Balances]

Signals ==
    [symbol : {"EURUSD", "USDJPY"}, direction : {"BUY"},
     entry_price : {EntryPips},
     stop_loss : (EntryPips - MaxSignalStop)..EntryPips,
     immediate_execution : BOOLEAN]

\* what the broker side answers while one account is served: whether the
\* connector can be had (get_connector), whether the executor gets as far as
\* mt5.order_send (connected, AUTO_TRADING_ENABLED, symbol and price info),
\* and whether the broker accepts the order
BrokerAnswers == [connOk : BOOLEAN, reachesBroker : BOOLEAN, accepted : BOOLEAN]

\* the accounts distribute_signal selects: auto_trade_enabled and status active
ActiveAccounts(accs) ==
    {a \in Accounts : accs[a].auto_trade_enabled /\ accs[a].status = "active"}

\* TradeCopier._calculate_lot_size: the connector's lot size, as it comes
CopierCalculateLotSize(acc, sig) ==
    ConnectorCalculateLotSize(acc.balance, acc.risk_percentage,
        Abs(sig.entry_price - sig.stop_loss) * CopierPipFactor(sig.symbol))

\* TradeCopier._execute_for_account: the order sent, if one is sent
\* (a "sent" of FALSE: no call of mt5.order_send), and the value returned
ExecuteForAccount(a, acc, sig, env) ==
    IF ~env.connOk \/ acc.status # "active"
    THEN [sent |-> FALSE, success |-> FALSE]
    ELSE LET lot_size == CopierCalculateLotSize(acc, sig)
         IN  IF lot_size = ZeroDivisionError
             THEN [sent |-> FALSE, success |-> FALSE]       \* except: return False
             ELSE IF ~env.reachesBroker
             THEN [sent |-> FALSE, success |-> FALSE]
             ELSE [sent |-> TRUE, success |-> env.accepted,
                   order |-> [account |-> a, signal |-> sig, lot |-> lot_size,
                              kind |-> IF sig.immediate_execution
                                       THEN "market" ELSE "pending"]]

IdleCopier ==
    accounts = <<>> /\ signal = None /\ approvals = {} /\ orders = {}

(***************************************************************************)
(* Signal generation (SignalGenerator.generate_signal).                    *)
(* POI prices are in pips; the prices of a setup and of a signal are in    *)
(* half pips, so that the body midpoint of a POI is exact.                 *)
(***************************************************************************)
TicksPerPip == 2
MIN_CANDLES == 20                 \* candles a series needs for analysis
SL_PADDING_PIPS == 3
ML_ENSEMBLE_THRESHOLD == 60      \* percent
MIN_RISK_REWARD == 2
OrderTolerancePips == 2
NoSignal == [signal |-> FALSE]

\* PointOfInterest.get_entry_price: the body midpoint, for either entry type
GetEntryPrice(poi) == ((poi.body_high + poi.body_low) * TicksPerPip) \div 2

\* the price ordering of a setup
PriceOrdering(s) ==
    IF s.direction = "BUY"
    THEN s.stop_loss < s.entry_price /\ s.entry_price < s.take_profit_1
            /\ s.take_profit_1 < s.take_profit_2
    ELSE s.stop_loss > s.entry_price /\ s.entry_price > s.take_profit_1
            /\ s.take_profit_1 > s.take_profit_2

\* SMCAnalyzer.generate_trading_setup: entry at the POI body midpoint, stop
\* at the POI extreme plus the padding, targets at the opposing liquidity
\* levels; no setup without a target, with inverted prices, or with a
\* risk-reward below the minimum
GenerateTradingSetup(poi, tp1Level, tp2Level, confidence) ==
    IF tp1Level = None \/ tp2Level = None THEN None
    ELSE LET dir   == IF poi.direction = "bullish" THEN "BUY" ELSE "SELL"
             entry == GetEntryPrice(poi)
             sl    == IF dir = "BUY"
                      THEN (poi.price_low - SL_PADDING_PIPS) * TicksPerPip
                      ELSE (poi.price_high + SL_PADDING_PIPS) * TicksPerPip
             setup == [direction |-> dir, entry_price |-> entry,
                       stop_loss |-> sl,
                       take_profit_1 |-> tp1Level.price * TicksPerPip,
                       take_profit_2 |-> tp2Level.price * TicksPerPip,
                       risk_reward_tp1 |->
                           Frac(Abs(tp1Level.price * TicksPerPip - entry),
                                Abs(entry - sl)),
                       confidence_score |-> confidence,
                       poi_type |-> poi.poi_type]
         IN  IF ~PriceOrdering(setup) THEN None
             ELSE IF Abs(setup.take_profit_1 - entry)
                        < MIN_RISK_REWARD * Abs(entry - sl) THEN None
             ELSE setup

\* SMCAnalyzer.should_take_trade
ShouldTakeTrade(setup, min_confidence, min_risk_reward) ==
    /\ setup.confidence_score >= min_confidence
    /\ Abs(setup.take_profit_1 - setup.entry_price)
            >= min_risk_reward * Abs(setup.entry_price - setup.stop_loss)

\* OrderTypeDetector.determine_order_type
DetermineOrderType(direction, entry_price, current_price) ==
    IF Abs(current_price - entry_price) <= OrderTolerancePips * TicksPerPip
    THEN [order_type |-> "MARKET", immediate_execution |-> TRUE]
    ELSE IF direction = "BUY"
    THEN [order_type |-> IF current_price < entry_price
                         THEN "BUY_STOP" ELSE "BUY_LIMIT",
          immediate_execution |-> FALSE]
    ELSE [order_type |-> IF current_price > entry_price
                         THEN "SELL_STOP" ELSE "SELL_LIMIT",
          immediate_execution |-> FALSE]

\* step 9 of generate_signal with pending_order copied into
\* immediate_execution
SignalDictPendingFlag(in, setup, order) ==
    [symbol |-> in.symbol, direction |-> setup.direction,
     entry_price |-> setup.entry_price,
     current_price |-> in.current_price * TicksPerPip,
     stop_loss |-> setup.stop_loss,
     take_profit_1 |-> setup.take_profit_1,
     take_profit_2 |-> setup.take_profit_2,
     confidence |-> setup.confidence_score, poi_type |-> setup.poi_type,
     order_type |-> order.order_type,
     immediate_execution |-> ~order.immediate_execution]

\* step 9 of generate_signal with stop_loss and take_profit_1 exchanged
SignalDictSwapped(in, setup, order) ==
    [symbol |-> in.symbol, direction |-> setup.direction,
     entry_price |-> setup.entry_price,
     current_price |-> in.current_price * TicksPerPip,
     stop_loss |-> setup.take_profit_1,
     take_profit_1 |-> setup.stop_loss,
     take_profit_2 |-> setup.take_profit_2,
     confidence |-> setup.confidence_score, poi_type |-> setup.poi_type,
     order_type |-> order.order_type,
     immediate_execution |-> order.immediate_execution]

\* step 9 of generate_signal: the signal dictionary
SignalDict(in, setup, order) ==
    [symbol |-> in.symbol, direction |-> setup.direction,
     entry_price |-> setup.entry_price,
     current_price |-> in.current_price * TicksPerPip,
     stop_loss |-> setup.stop_loss,
     take_profit_1 |-> setup.take_profit_1,
     take_profit_2 |-> setup.take_profit_2,
     confidence |-> setup.confidence_score, poi_type |-> setup.poi_type,
     order_type |-> order.order_type,
     immediate_execution |-> order.immediate_execution]

\* MLEnsemble.predict as generate_signal uses it: the prediction is indexed
\* right after the call, so an absent prediction raises like a failed call
MLPredictionRaises(in) == in.ml \in {"none", "raises"}

\* SentimentAnalyzer.analyze_symbol_sentiment over NewsScraper.fetch_symbol_news:
\* no articles, no relevant article or any failure gives the neutral score
AnalyzeSymbolSentiment(in) ==
    IF in.sentimentMissing THEN 0 ELSE in.sentimentScore

\* the blend of the structural and ML score with the sentiment score
ConfidenceScore(base, sentiment) == base + sentiment

\* the assembler over the fetched series: structure analysis is
\* "insufficient" below MIN_CANDLES candles, and there is no setup
SetupFromSeries(in) ==
    IF in.length < MIN_CANDLES THEN None
    ELSE GenerateTradingSetup(in.poi, in.tp1Level, in.tp2Level,
             ConfidenceScore(in.confidence, AnalyzeSymbolSentiment(in)))

\* the call of generate_trading_setup that generate_signal makes: none when
\* it returned before, else the length of the shortest series it hands over
AssemblerCall(in) ==
    IF ~in.dataOk \/ ~in.priceOk \/ MLPredictionRaises(in)
    THEN [called |-> FALSE]
    ELSE [called |-> TRUE, length |-> in.length]

\* generate_signal that says nothing when the analyzer has no setup
GenerateSignalLogQuiet(in) ==
    IF ~in.dataOk THEN "Failed to fetch data"
    ELSE IF ~in.priceOk THEN "Failed to get current price"
    ELSE IF MLPredictionRaises(in) THEN "Error generating signal"
    ELSE IF SetupFromSeries(in) = None THEN ""
    ELSE IF ~ShouldTakeTrade(SetupFromSeries(in), ML_ENSEMBLE_THRESHOLD,
                             MIN_RISK_REWARD)
    THEN "Setup rejected"
    ELSE "Trade signal"

\* the last line generate_signal writes to the log (error, info or
\* trade_signal) before it returns
GenerateSignalLog(in) ==
    IF ~in.dataOk THEN "Failed to fetch data"
    ELSE IF ~in.priceOk THEN "Failed to get current price"
    ELSE IF MLPredictionRaises(in) THEN "Error generating signal"
    ELSE IF SetupFromSeries(in) = None THEN "No valid SMC setup"
    ELSE IF ~ShouldTakeTrade(SetupFromSeries(in), ML_ENSEMBLE_THRESHOLD,
                             MIN_RISK_REWARD)
    THEN "Setup rejected"
    ELSE "Trade signal"

\* SignalGenerator.generate_signal
GenerateSignal(in) ==
    IF ~in.dataOk THEN NoSignal                 \* a series is None
    ELSE IF ~in.priceOk THEN NoSignal           \* no current price
    ELSE IF MLPredictionRaises(in)
    THEN NoSignal                               \* except Exception: return None
    ELSE LET setup == SetupFromSeries(in)
         IN  IF setup = None THEN NoSignal
             ELSE IF ~ShouldTakeTrade(setup, ML_ENSEMBLE_THRESHOLD,
                                      MIN_RISK_REWARD)
             THEN NoSignal
             ELSE SignalDict(in, setup,
                      DetermineOrderType(setup.direction, setup.entry_price,
                                         in.current_price * TicksPerPip))

\* the POIs the analyzer selects from, the liquidity levels of the structure
\* (none: no qualifying level), and the prices quoted
SelectedPOIs ==
    [poi_type : {"OB"}, direction : {"bullish", "bearish"},
     price_low : {20}, body_low : {21, 22}, body_high : {22, 23},
     price_high : {24}]
LiquidityLevels == {[price |-> l] : l \in {5, 10, 23, 30, 40, 60}}
CurrentPrices == {15, 20, 22, 30}
Confidences == {50, 60}
\* the length of the shortest fetched series, what the ML collaborator
\* does, and the sentiment scores of the news
SeriesLengths == {MIN_CANDLES - 1, MIN_CANDLES}
MLOutcomes == {"ok", "none", "raises"}
SentimentScores == {-10, 10}

ScanInputs ==
    [symbol : {"EURUSD"}, dataOk : BOOLEAN, length : SeriesLengths,
     priceOk : BOOLEAN,
     ml : MLOutcomes, sentimentMissing : BOOLEAN,
     sentimentScore : SentimentScores,
     poi : SelectedPOIs,
     tp1Level : LiquidityLevels \cup {None},
     tp2Level : LiquidityLevels \cup {None},
     confidence : Confidences, current_price : CurrentPrices]

IdleScan ==
    scanIn = None /\ scanOut = None /\ assembled = None /\ scanLog = ""

(***************************************************************************)
(* Signal deduplication (SignalTracker).  Time is in hours; entry prices   *)
(* of tracked signals are in millionths, hashed at five decimals.          *)
(***************************************************************************)
cooldown_hours == 24
HoursPerDay == 24
HashDecimalsUnit == 10          \* millionths per unit of the fifth decimal
MaxClock == 36
MaxOccurrences == 3
ClockSteps == {12}
CleanupDays == {0, 7}

TrackedSignals ==
    [symbol : {"EURUSD"}, direction : {"BUY"},
     entry_price : {1100000, 1100004, 1100500},
     scenario : {"Reversal via MSS"}, poi_type : {"OB"}]

\* SignalTracker._generate_signal_hash: the canonical string that is hashed
GenerateSignalHash(sig) ==
    <<sig.symbol, sig.direction, PyRound(sig.entry_price, HashDecimalsUnit),
      sig.scenario, sig.poi_type>>

NoReason == [kind |-> "none", hours_ago |-> 0, occurrence |-> 0]
ErrorReason == [kind |-> "error", hours_ago |-> 0, occurrence |-> 0]

\* is_duplicate with the cooldown measured from first_seen
IsDuplicateFirstSeen(st, now, sig, dbOk) ==
    LET h == GenerateSignalHash(sig)
        cooldown_cutoff == now - cooldown_hours
    IN  IF ~dbOk THEN [dup |-> FALSE, reason |-> ErrorReason]
        ELSE IF h \in DOMAIN st /\ st[h].first_seen > cooldown_cutoff
        THEN [dup |-> TRUE,
              reason |-> [kind |-> "duplicate",
                          hours_ago |-> now - st[h].last_seen,
                          occurrence |-> st[h].occurrence_count]]
        ELSE [dup |-> FALSE, reason |-> NoReason]

\* SignalTracker.is_duplicate at time now; dbOk: the store can be read
IsDuplicate(st, now, sig, dbOk) ==
    LET h == GenerateSignalHash(sig)
        cooldown_cutoff == now - cooldown_hours
    IN  IF ~dbOk THEN [dup |-> FALSE, reason |-> ErrorReason]
        ELSE IF h \in DOMAIN st /\ st[h].last_seen > cooldown_cutoff
        THEN [dup |-> TRUE,
              reason |-> [kind |-> "duplicate",
                          hours_ago |-> now - st[h].last_seen,
                          occurrence |-> st[h].occurrence_count]]
        ELSE [dup |-> FALSE, reason |-> NoReason]

\* the store after row h is written
WithRow(st, h, row) ==
    [x \in DOMAIN st \cup {h} |-> IF x = h THEN row ELSE st[x]]

\* record_signal as INSERT OR REPLACE: a known hash starts over at one
RecordSignalReplacing(st, now, sig, was_sent, dbOk) ==
    LET h == GenerateSignalHash(sig)
    IN  IF ~dbOk THEN st
        ELSE WithRow(st, h, [first_seen |-> now, last_seen |-> now,
                             occurrence_count |-> 1,
                             sent_count |-> IF was_sent THEN 1 ELSE 0])

\* SignalTracker.record_signal at time now; a failed write leaves the store
RecordSignal(st, now, sig, was_sent, dbOk) ==
    LET h == GenerateSignalHash(sig)
        sent == IF was_sent THEN 1 ELSE 0
    IN  IF ~dbOk THEN st
        ELSE IF h \in DOMAIN st
        THEN WithRow(st, h, [st[h] EXCEPT
                 !.last_seen = now,
                 !.occurrence_count = st[h].occurrence_count + 1,
                 !.sent_count = st[h].sent_count + sent])
        ELSE WithRow(st, h, [first_seen |-> now, last_seen |-> now,
                             occurrence_count |-> 1, sent_count |-> sent])

\* SignalTracker.cleanup_old_signals(days) at time now
CleanupOldSignals(st, now, days, dbOk) ==
    LET cutoff_date == now - days * HoursPerDay
        kept == {h \in DOMAIN st : ~(st[h].last_seen < cutoff_date)}
    IN  IF ~dbOk THEN st ELSE [h \in kept |-> st[h]]

IdleTracker ==
    clock = 0 /\ store = <<>> /\ emittedAt = <<>> /\ dupOut = None

\* the record_signal calls made for a hash so far, and those of them whose
\* write reached the table
NoCalls == [calls |-> 0, written |-> 0]
CallsFor(h) == IF h \in DOMAIN recordCalls THEN recordCalls[h] ELSE NoCalls

IdleRecord == recordCalls = <<>>

(***************************************************************************)
(* POI detection (POIDetector, timeframe M15).  A series df is a sequence  *)
(* of candles [open, high, low, close]; Python's df.iloc[i] is df[i + 1].  *)
(***************************************************************************)
primary_lookback == 200
max_poi_distance == 60
WarmUpCandles == 5
MaxCandles == 10

Candle(df, i) == df[i + 1]
Arg(v) == [value |-> v]
Max(a, b) == IF a >= b THEN a ELSE b
Min(a, b) == IF a <= b THEN a ELSE b
SetMax(S) == CHOOSE x \in S : \A y \in S : x >= y
SetMin(S) == CHOOSE x \in S : \A y \in S : x <= y

\* the candles a feed delivers: a bearish candle, a large bullish candle, a
\* bullish candle whose low dips to the bearish candle's midpoint, a doji
BearishCandle == [open |-> 2004, high |-> 2005, low |-> 2001, close |-> 2002]
BullishCandle == [open |-> 2005, high |-> 2012, low |-> 2005, close |-> 2011]
DippingCandle == [open |-> 2003, high |-> 2009, low |-> 2003, close |-> 2008]
DojiCandle    == [open |-> 2001, high |-> 2002, low |-> 2001, close |-> 2001]
Candles == {BearishCandle, BullishCandle, DippingCandle, DojiCandle}
Directions == {"bullish", "bearish"}

\* PointOfInterest.is_valid
IsValid(poi) ==
    /\ poi.triggered_structure
    /\ poi.has_inducement
    /\ poi.is_unmitigated
    /\ poi.distance_to_liquidity >= 0

IsBullishCandle(c) == c.close > c.open
IsBearishCandle(c) == c.close < c.open

\* the outcome of a call: a value, or IndexError raised by df.iloc
Returns(v) == [raised |-> FALSE, value |-> v]
IndexError == [raised |-> TRUE, value |-> FALSE]

\* the wick of candle j reaches the 50% level of the POI candle
ReachesMeanThreshold(df, poi_index, j, direction) ==
    LET twice_mean == Candle(df, poi_index).high + Candle(df, poi_index).low
    IN  IF direction = "bullish" THEN 2 * Candle(df, j).low <= twice_mean
        ELSE 2 * Candle(df, j).high >= twice_mean

\* _check_mitigation_50_percent with a strict comparison
CheckMitigationStrict(df, poi_index, inducement_index, direction) ==
    LET twice_mean == Candle(df, poi_index).high + Candle(df, poi_index).low
        inside == (poi_index + 1)..Min(inducement_index, Len(df) - 1)
    IN  IF poi_index >= inducement_index THEN Returns(TRUE)
        ELSE IF \E j \in inside :
                    IF direction = "bullish"
                    THEN 2 * Candle(df, j).low < twice_mean
                    ELSE 2 * Candle(df, j).high > twice_mean
        THEN Returns(FALSE)
        ELSE IF inducement_index >= Len(df) THEN IndexError
        ELSE Returns(TRUE)

\* POIDetector._check_mitigation_50_percent: the loop runs over
\* poi_index + 1 .. inducement_index and returns at the first candle that
\* reaches the level; reading a candle past the end raises
CheckMitigation50Percent(df, poi_index, inducement_index, direction) ==
    LET inside == (poi_index + 1)..Min(inducement_index, Len(df) - 1)
    IN  IF poi_index >= inducement_index THEN Returns(TRUE)
        ELSE IF \E j \in inside :
                    ReachesMeanThreshold(df, poi_index, j, direction)
        THEN Returns(FALSE)
        ELSE IF inducement_index >= Len(df) THEN IndexError
        ELSE Returns(TRUE)

\* _calculate_distance_to_inducement
CalculateDistanceToInducement(poi_index, inducement_index) ==
    inducement_index - poi_index

\* df.iloc[i+1 : min(i+4, len(df))], as indices
NextCandles(df, i) == (i + 1)..(Min(i + 4, Len(df)) - 1)

RECURSIVE SumRanges(_, _, _)
SumRanges(df, from, to) ==
    IF from >= to THEN 0
    ELSE Candle(df, from).high - Candle(df, from).low
            + SumRanges(df, from + 1, to)

DisplacementRange(df, i) ==
    SetMax({Candle(df, j).high : j \in NextCandles(df, i)})
        - SetMin({Candle(df, j).low : j \in NextCandles(df, i)})

\* displacement_range > avg_range * 1.5, avg_range the mean range of the
\* five candles before i, or displacement_range itself when i < 5
ExceedsAverageRange(df, i) ==
    LET displacement_range == DisplacementRange(df, i)
    IN  IF i >= 5
        THEN 10 * displacement_range > 3 * SumRanges(df, i - 5, i)
        ELSE 2 * displacement_range > 3 * displacement_range

\* candle i is an order block of the direction: the opposite candle
\* followed by a displacement
IsOrderBlockCandle(df, i, direction) ==
    /\ i + 3 < Len(df)
    /\ IF direction = "bullish"
       THEN /\ IsBearishCandle(Candle(df, i))
            /\ Cardinality({j \in NextCandles(df, i) :
                                IsBullishCandle(Candle(df, j))}) >= 2
       ELSE /\ IsBullishCandle(Candle(df, i))
            /\ Cardinality({j \in NextCandles(df, i) :
                                IsBearishCandle(Candle(df, j))}) >= 2
    /\ ExceedsAverageRange(df, i)

\* the PointOfInterest built for order block i, flagged as induced
OrderBlockAtInduced(df, i, direction, inducement_index) ==
    [poi_type |-> "OB",
     price_high |-> Candle(df, i).high, price_low |-> Candle(df, i).low,
     candle_index |-> i,
     body_high |-> Max(Candle(df, i).open, Candle(df, i).close),
     body_low |-> Min(Candle(df, i).open, Candle(df, i).close),
     triggered_structure |-> TRUE,
     has_inducement |-> TRUE,
     is_unmitigated |->
        CheckMitigation50Percent(df, i, inducement_index, direction).value,
     distance_to_liquidity |->
        CalculateDistanceToInducement(i, inducement_index),
     direction |-> direction, fvg_overlap |-> FALSE]

\* the PointOfInterest detect_order_blocks builds for order block i
OrderBlockAt(df, i, direction, inducement_index) ==
    [poi_type |-> "OB",
     price_high |-> Candle(df, i).high, price_low |-> Candle(df, i).low,
     candle_index |-> i,
     body_high |-> Max(Candle(df, i).open, Candle(df, i).close),
     body_low |-> Min(Candle(df, i).open, Candle(df, i).close),
     triggered_structure |-> TRUE,
     has_inducement |-> FALSE,
     is_unmitigated |->
        CheckMitigation50Percent(df, i, inducement_index, direction).value,
     distance_to_liquidity |->
        CalculateDistanceToInducement(i, inducement_index),
     direction |-> direction, fvg_overlap |-> FALSE]

\* list.sort(key = distance_to_liquidity): stable, ascending
RECURSIVE InsertByDistance(_, _)
InsertByDistance(sorted, poi) ==
    IF sorted = <<>> THEN <<poi>>
    ELSE IF Head(sorted).distance_to_liquidity <= poi.distance_to_liquidity
    THEN <<Head(sorted)>> \o InsertByDistance(Tail(sorted), poi)
    ELSE <<poi>> \o sorted

RECURSIVE SortByDistance(_)
SortByDistance(pois) ==
    IF pois = <<>> THEN <<>>
    ELSE InsertByDistance(SortByDistance(SubSeq(pois, 1, Len(pois) - 1)),
                          pois[Len(pois)])

\* the loop of detect_order_blocks without the candle-distance test
RECURSIVE ScanOrderBlocksUnfiltered(_, _, _, _, _)
ScanOrderBlocksUnfiltered(df, direction, inducement_index, i, scan_end) ==
    IF i >= scan_end THEN <<>>
    ELSE LET rest == ScanOrderBlocksUnfiltered(df, direction,
                                               inducement_index,
                                               i + 1, scan_end)
         IN  IF IsOrderBlockCandle(df, i, direction)
             THEN <<OrderBlockAt(df, i, direction, inducement_index)>> \o rest
             ELSE rest

\* the loop of detect_order_blocks over range(i, scan_end)
RECURSIVE ScanOrderBlocks(_, _, _, _, _)
ScanOrderBlocks(df, direction, inducement_index, i, scan_end) ==
    IF i >= scan_end THEN <<>>
    ELSE LET rest == ScanOrderBlocks(df, direction, inducement_index,
                                     i + 1, scan_end)
         IN  IF /\ IsOrderBlockCandle(df, i, direction)
                /\ inducement_index - i <= max_poi_distance
             THEN <<OrderBlockAt(df, i, direction, inducement_index)>> \o rest
             ELSE rest

\* scan_end and inducement_index as the detectors resolve their arguments
ScanEnd(df, structure_break_index) ==
    IF structure_break_index # None THEN structure_break_index.value
    ELSE Len(df) - 1

InducementIndex(df, inducement_index, structure_break_index) ==
    IF inducement_index # None THEN inducement_index.value
    ELSE ScanEnd(df, structure_break_index)

\* POIDetector.detect_order_blocks
DetectOrderBlocks(df, direction, inducement_index, structure_break_index) ==
    LET scan_end == ScanEnd(df, structure_break_index)
        ind == InducementIndex(df, inducement_index, structure_break_index)
        start_index == Max(0, scan_end - primary_lookback)
    IN  IF \E i \in start_index..(scan_end - 1) :
                /\ IsOrderBlockCandle(df, i, direction)
                /\ CheckMitigation50Percent(df, i, ind, direction).raised
        THEN [raised |-> TRUE, list |-> <<>>]
        ELSE [raised |-> FALSE,
              list |-> SortByDistance(
                  ScanOrderBlocks(df, direction, ind, start_index, scan_end))]

\* POIDetector._is_body_unmitigated
IsBodyUnmitigated(df, candle_index, direction) ==
    LET body_high == Max(Candle(df, candle_index).open,
                         Candle(df, candle_index).close)
        body_low == Min(Candle(df, candle_index).open,
                        Candle(df, candle_index).close)
    IN  IF candle_index >= Len(df) - 1 THEN TRUE
        ELSE \A j \in (candle_index + 1)..(Len(df) - 1) :
                IF direction = "bullish" THEN ~(Candle(df, j).low <= body_low)
                ELSE ~(Candle(df, j).high >= body_high)

\* candle i is a breaker block of the direction
IsBreakerBlockCandle(df, i, direction) ==
    /\ i + 3 < Len(df)
    /\ IF direction = "bullish"
       THEN /\ Candle(df, i + 1).low < Candle(df, i).low
            /\ Cardinality({j \in NextCandles(df, i) :
                                IsBearishCandle(Candle(df, j))}) >= 2
       ELSE /\ Candle(df, i + 1).high > Candle(df, i).high
            /\ Cardinality({j \in NextCandles(df, i) :
                                IsBullishCandle(Candle(df, j))}) >= 2
    /\ IsBodyUnmitigated(df, i, direction)

BreakerBlockAt(df, i, direction, inducement_index) ==
    [poi_type |-> "BB",
     price_high |-> Candle(df, i).high, price_low |-> Candle(df, i).low,
     candle_index |-> i,
     body_high |-> Max(Candle(df, i).open, Candle(df, i).close),
     body_low |-> Min(Candle(df, i).open, Candle(df, i).close),
     triggered_structure |-> TRUE,
     has_inducement |-> FALSE,
     is_unmitigated |-> IsBodyUnmitigated(df, i, direction),
     distance_to_liquidity |->
        CalculateDistanceToInducement(i, inducement_index),
     direction |-> direction, fvg_overlap |-> FALSE]

RECURSIVE ScanBreakerBlocks(_, _, _, _, _)
ScanBreakerBlocks(df, direction, inducement_index, i, scan_end) ==
    IF i >= scan_end THEN <<>>
    ELSE LET rest == ScanBreakerBlocks(df, direction, inducement_index,
                                       i + 1, scan_end)
         IN  IF /\ IsBreakerBlockCandle(df, i, direction)
                /\ inducement_index - i <= max_poi_distance
             THEN <<BreakerBlockAt(df, i, direction, inducement_index)>>
                    \o rest
             ELSE rest

\* POIDetector.detect_breaker_blocks
DetectBreakerBlocks(df, direction, inducement_index, structure_break_index) ==
    LET scan_end == ScanEnd(df, structure_break_index)
        ind == InducementIndex(df, inducement_index, structure_break_index)
        start_index == Max(0, scan_end - primary_lookback)
    IN  [raised |-> FALSE,
         list |-> SortByDistance(
             ScanBreakerBlocks(df, direction, ind, start_index, scan_end))]

\* POIDetector._is_fvg_unmitigated
IsFvgUnmitigated(df, candle_index, gap_low, gap_high) ==
    IF candle_index >= Len(df) - 1 THEN TRUE
    ELSE \A j \in (candle_index + 1)..(Len(df) - 1) :
            ~(Candle(df, j).low <= gap_low \/ Candle(df, j).high >= gap_high)

\* the gap candle i closes, as detect_fair_value_gaps measures it
GapBottom(df, i, direction) ==
    IF direction = "bullish" THEN Candle(df, i - 2).high
    ELSE Candle(df, i).high

GapTop(df, i, direction) ==
    IF direction = "bullish" THEN Candle(df, i).low
    ELSE Candle(df, i - 2).low

\* a gap test without the minimum size: any positive gap counts
IsFairValueGapAnySize(df, i, direction) ==
    GapTop(df, i, direction) > GapBottom(df, i, direction)

\* gap_percent >= fvg_min_size_percent (0.1), gap_percent the gap as a
\* percentage of gap_bottom (bullish) or gap_top (bearish)
IsFairValueGap(df, i, direction) ==
    LET gap_bottom == GapBottom(df, i, direction)
        gap_top == GapTop(df, i, direction)
        base == IF direction = "bullish" THEN gap_bottom ELSE gap_top
    IN  /\ gap_top > gap_bottom
        /\ (gap_top - gap_bottom) * 100 * 10 >= base

FairValueGapAt(df, i, direction) ==
    LET gap_bottom == GapBottom(df, i, direction)
        gap_top == GapTop(df, i, direction)
    IN  [poi_type |-> "FVG",
         price_high |-> gap_top, price_low |-> gap_bottom,
         candle_index |-> i - 1,
         body_high |-> gap_top, body_low |-> gap_bottom,
         triggered_structure |-> TRUE,
         has_inducement |-> FALSE,
         is_unmitigated |-> IsFvgUnmitigated(df, i, gap_bottom, gap_top),
         distance_to_liquidity |-> 0,
         direction |-> direction, fvg_overlap |-> FALSE]

RECURSIVE ScanFairValueGaps(_, _, _)
ScanFairValueGaps(df, direction, i) ==
    IF i >= Len(df) THEN <<>>
    ELSE IF IsFairValueGap(df, i, direction)
    THEN <<FairValueGapAt(df, i, direction)>>
            \o ScanFairValueGaps(df, direction, i + 1)
    ELSE ScanFairValueGaps(df, direction, i + 1)

\* POIDetector.detect_fair_value_gaps
DetectFairValueGaps(df, direction) ==
    [raised |-> FALSE, list |-> ScanFairValueGaps(df, direction, 2)]

\* the index arguments a caller passes: none (the default), the first
\* candle after the warm-up, the last candle, one past the last candle
InducementArgs(df) ==
    {None, Arg(WarmUpCandles), Arg(Len(df) - 1), Arg(Len(df))}
StructureBreakArgs(df) == {None, Arg(Len(df) - 2)}

\* series that start a long quiet stretch: the warm-up, then one of a few
\* openings, each holding an order-block candle
MaxLongCandles == 70
LongOpenings ==
    {<<BearishCandle, BullishCandle, BullishCandle, BullishCandle>>,
     <<BullishCandle, BearishCandle, BearishCandle, DojiCandle>>,
     <<DojiCandle, BearishCandle, BullishCandle, BullishCandle,
       BullishCandle>>,
     <<BearishCandle, DippingCandle, BullishCandle, DojiCandle>>}

IdlePOI == candles = <<>> /\ poiOut = None

(***************************************************************************)
(* RiskManager.validate_trade.  The spread is in points of the symbol.     *)
(***************************************************************************)
MaxSpreadPoints == 50

\* what validate_trade is given and what its collaborators answer
ValidateInputs ==
    [risk : RiskInputs, confidence : Confidences, symbolOk : BOOLEAN,
     priceOk : BOOLEAN, spread : {MaxSpreadPoints, MaxSpreadPoints + 1}]

\* RiskManager.validate_trade for an account without closed trades
ValidateTrade(in) ==
    LET risk == CheckRiskLimits(<<>>, 0, in.risk)
    IN  IF ~risk.ok THEN [ok |-> FALSE, reason |-> risk.reason]
        ELSE IF in.confidence < ML_ENSEMBLE_THRESHOLD
             THEN [ok |-> FALSE, reason |-> "Confidence too low"]
        ELSE IF ~in.symbolOk
             THEN [ok |-> FALSE, reason |-> "Symbol not available"]
        ELSE IF in.priceOk /\ in.spread > MaxSpreadPoints
             THEN [ok |-> FALSE, reason |-> "Spread too high"]
        ELSE [ok |-> TRUE, reason |-> "Trade validated"]

(***************************************************************************)
(* RiskManager.calculate_kelly_criterion.  Percentages are in hundredths   *)
(* of a percent here; win_rate is in whole percents.                       *)
(***************************************************************************)
KellyFloor == 10                 \* 0.1 percent

\* the statistics of get_user_trading_stats and the account's setting (the
\* bot accepts any risk percentage in (0, 5]); numpy: the averages are
\* numpy floats, for which a division by zero is inf or nan, not an error
KellyInputs ==
    [risk_percentage : {5, 100, 200}, win_rate : {0, 30, 50, 60, 100},
     avg_win : {0, 50, 100}, avg_loss : {0, 50, 100}, numpy : BOOLEAN]

\* RiskManager.calculate_kelly_criterion
CalculateKellyCriterion(in) ==
    IF in.avg_loss = 0 THEN Frac(in.risk_percentage, 1)
    ELSE IF in.avg_win = 0
    THEN IF in.numpy
         THEN Frac(KellyFloor, 1)            \* max(0.1, -inf or nan)
         ELSE Frac(in.risk_percentage, 1)    \* except: ZeroDivisionError
    ELSE LET kelly_pct ==
                 Frac(100 * in.win_rate * in.avg_win
                        - 100 * (100 - in.win_rate) * in.avg_loss,
                      in.avg_win)
         IN  MaxQ(KellyFloor, MinQ(kelly_pct, in.risk_percentage))

(***************************************************************************)
(* The operational shell: the broker heartbeat (main.py) and the message   *)
(* retry queue (telegram_bot/message_queue.py).  Delays are in seconds.    *)
(***************************************************************************)
HeartbeatSleep == 60             \* the sleep that opens a heartbeat iteration
HeartbeatErrorSleep == 60        \* the extra sleep after a heartbeat exception
QueueSleep == 300                \* the sleep that opens a queue-processor run
MaxAttempts == 3                 \* send_queued_messages: attempts < 3

\* bounds of the model: reconnect attempts of one outage, seconds slept
\* between two attempts, queued messages, delivery attempts of one message
MaxReconnects == 4
MaxWaited == 120
MaxMessages == 1
MaxDeliveries == 4

\* the time since the previous attempt of the outage after s more seconds;
\* the first attempt of an outage has no previous one and records 0
Slept(s) == IF reconnects = <<>> THEN 0 ELSE waited + s

\* what one delivery attempt can come to: the message is sent and marked,
\* sent but _mark_sent fails silently, not sent and counted by
\* _update_failure, not sent while _update_failure fails silently
DeliveryOutcomes == {"sent", "sent_unmarked", "failed", "failed_unrecorded"}

\* the rows send_queued_messages selects: sent = 0 AND attempts < 3
Selected(q) == {i \in 1..Len(q) : ~q[i].sent /\ q[i].attempts < MaxAttempts}

\* MessageQueue._mark_sent and MessageQueue._update_failure on one row
RowAfter(row, outcome) ==
    CASE outcome = "sent" -> [row EXCEPT !.sent = TRUE]
      [] outcome = "failed" -> [row EXCEPT !.attempts = @ + 1]
      [] OTHER -> row

\* MessageQueue.send_queued_messages: the table after one run
SendQueuedMessages(q, out) ==
    [i \in 1..Len(q) |->
        IF i \in Selected(q) THEN RowAfter(q[i], out[i]) ELSE q[i]]

\* the two callers of send_queued_messages: the startup flush of
\* _run_telegram_bot and the periodic _run_message_queue_processor
Runs == {"flush", "processor"}

\* a run that is not under way
NoRun == [running |-> FALSE, pending |-> <<>>, started |-> FALSE]
RunOver == [running |-> FALSE, pending |-> <<>>, started |-> TRUE]

\* the rows a run fetched, in the order of the SELECT (ORDER BY created_at)
RECURSIVE SelectedFrom(_, _)
SelectedFrom(q, i) ==
    IF i > Len(q) THEN <<>>
    ELSE (IF i \in Selected(q) THEN <<i>> ELSE <<>>) \o SelectedFrom(q, i + 1)

\* how often Telegram received message i, and whether a _mark_sent for
\* it was lost
NotDelivered == [times |-> 0, markLost |-> FALSE]
DeliveredOf(i) == IF i \in DOMAIN delivered THEN delivered[i] ELSE NotDelivered

\* bot.send_message went through or raised
Received(outcome) == outcome \in {"sent", "sent_unmarked"}

IdleFlush == runs = [r \in Runs |-> NoRun] /\ delivered = <<>>

IdleRetry ==
    /\ connected = TRUE /\ waited = 0 /\ reconnects = <<>>
    /\ queue = <<>> /\ deliveries = <<>>

(***************************************************************************)
(* Users, their roles and their MT5 accounts (AdminManager.ban_user and    *)
(* unban_user, AccountManager.add_account and test_connection,             *)
(* TradeCommandHandler.enable_auto_callback, and the accounts              *)
(* TradeCopier.distribute_signal serves).                                  *)
(***************************************************************************)
MaxUsers == 2                     \* users registered
MaxOwned == 2                     \* MT5 accounts created in a run
MaxUserAccounts == 5              \* active accounts a non-admin may hold
UserIds == 1..MaxUsers
UserRole == {"admin", "user", "banned"}

\* a row of mt5_accounts: status and auto_trade_enabled as add_account
\* creates them, last_connected once a connection test went through
NewAccount(u) ==
    [user_id |-> u, status |-> "pending", auto_trade_enabled |-> FALSE,
     last_connected |-> FALSE]

AccountsOf(accs, u) == {i \in DOMAIN accs : accs[i].user_id = u}

ActiveAccountsOf(accs, u) ==
    {i \in AccountsOf(accs, u) : accs[i].status = "active"}

\* AccountManager.test_connection: the row after the test
TestConnection(row, connects) ==
    IF connects THEN [row EXCEPT !.last_connected = TRUE] ELSE row

\* AccountManager.add_account: the table after the call (unchanged when the
\* limit raises ValueError and the transaction is rolled back)
AddAccount(accs, role, u, connects) ==
    IF role # "admin" /\ Cardinality(ActiveAccountsOf(accs, u)) >= MaxUserAccounts
    THEN accs
    ELSE Append(accs,
            [TestConnection(NewAccount(u), connects)
                EXCEPT !.status = IF connects THEN "active" ELSE "error"])

\* AdminManager.ban_user and ban_user_command: the role and the table after
\* the call; an admin is refused and nothing changes
BanUser(rs, accs, u) ==
    IF rs[u] = "admin"
    THEN [banned |-> FALSE, roles |-> rs, owned |-> accs]
    ELSE [banned |-> TRUE,
          roles |-> [rs EXCEPT ![u] = "banned"],
          owned |-> [i \in DOMAIN accs |->
                        IF accs[i].user_id = u
                        THEN [accs[i] EXCEPT !.auto_trade_enabled = FALSE,
                                             !.status = "inactive"]
                        ELSE accs[i]]]

\* AdminManager.unban_user and unban_user_command: the roles after the call
UnbanUser(rs, u) == [rs EXCEPT ![u] = "user"]

\* enable_auto_callback on "enable_auto_confirm": the table after the call
EnableAuto(accs, u) ==
    [i \in DOMAIN accs |->
        IF i \in ActiveAccountsOf(accs, u)
        THEN [accs[i] EXCEPT !.auto_trade_enabled = TRUE]
        ELSE accs[i]]

\* the rows distribute_signal selects: auto_trade_enabled and status active
SelectedAccounts(accs) ==
    {i \in DOMAIN accs : accs[i].auto_trade_enabled /\ accs[i].status = "active"}

IdleBan == roles = <<>> /\ owned = <<>> /\ executions = {}

(***************************************************************************)
(* Shutdown and the background loops (ProductionTradingBot.run, shutdown,  *)
(* _run_mt5_heartbeat, _run_health_checker, _run_message_queue_processor). *)
(* Each loop is "while self.running: try: await asyncio.sleep(n); <unit>"; *)
(* the unit of the heartbeat is the connection check and reconnect, that   *)
(* of the health checker the accounts query, that of the queue processor   *)
(* the flush of the message queue.                                         *)
(***************************************************************************)
Loops == {"heartbeat", "health", "queue"}

\* the flush awaits bot.send_message; the other units run without an await
Awaits(t) == t = "queue"

\* where a loop goes after "while self.running"
AfterLoopTest(isRunning) == IF isRunning THEN "sleeping" ELSE "returned"

\* where a loop goes once its sleep is over and its unit begins
AfterSleep(t, raises) ==
    IF Awaits(t) THEN "working"
    ELSE IF raises THEN "error_sleep" ELSE "loop_test"

\* where a loop goes once an awaited unit ends
AfterUnit(raises) == IF raises THEN "error_sleep" ELSE "loop_test"

\* asyncio.run cancels what is still pending once main() returns
Cancelled(pcs) ==
    [t \in Loops |-> IF pcs[t] = "returned" THEN "returned" ELSE "cancelled"]

IdleShut ==
    /\ running = FALSE /\ shutdown_event = FALSE /\ mainPc = ""
    /\ taskPc = <<>> /\ started = {}

(***************************************************************************)
(* Connectors per MT5 account (AccountManager.test_connection and          *)
(* get_connector).  A settings object is named by a string; "settings" is  *)
(* the module-level Settings() instance AccountManager gets as its config. *)
(***************************************************************************)
MaxConnAccounts == 3              \* MT5 accounts with stored credentials
ConnAccounts == 1..MaxConnAccounts

\* the credentials stored for account a; those of the environment
\* (secrets.env) are written as account 0
CredentialsOf(a) ==
    [MT5_LOGIN |-> a, MT5_PASSWORD |-> <<"password", a>>,
     MT5_SERVER |-> <<"server", a>>]

EnvCredentials == CredentialsOf(0)

\* MT5Connector(config): the connector keeps the object it is given, as
\* every constructor of the repository does (self.config = config)
MT5Connector(config) == [config |-> config]

\* connector.config.MT5_LOGIN = ..., MT5_PASSWORD = ..., MT5_SERVER = ...
SetCredentials(heap, connector, a) ==
    [o \in DOMAIN heap \cup {connector.config} |->
        IF o = connector.config THEN CredentialsOf(a) ELSE heap[o]]

\* the credentials connector.connect() logs in with
ConnectCredentials(heap, connector) == heap[connector.config]

\* AccountManager.test_connection(a): the settings objects after the call,
\* the credentials the test logged in with, and the value returned
TestConnectionOf(heap, a, connects) ==
    LET connector == MT5Connector("settings")
        after == SetCredentials(heap, connector, a)
    IN  [configs |-> after,
         login |-> ConnectCredentials(after, connector),
         result |-> IF connects THEN "True" ELSE "False"]

\* AccountManager.get_connector(a): a live cached connector is returned as
\* it is; otherwise the stale entry is dropped and, for an active account,
\* a new connector is made, and cached if it connects
GetConnector(heap, cache, a, active, alive, connects) ==
    IF a \in DOMAIN cache /\ alive
    THEN [configs |-> heap, cache |-> cache, result |-> "cached"]
    ELSE LET rest == [b \in DOMAIN cache \ {a} |-> cache[b]]
             connector == MT5Connector("settings")
             after == SetCredentials(heap, connector, a)
         IN  IF ~active
             THEN [configs |-> heap, cache |-> rest, result |-> "None"]
             ELSE IF connects
             THEN [configs |-> after,
                   cache |-> [b \in DOMAIN rest \cup {a} |->
                                IF b = a THEN connector ELSE rest[b]],
                   result |-> "created"]
             ELSE [configs |-> after, cache |-> rest, result |-> "None"]

IdleConn == configs = <<>> /\ active_connections = <<>> /\ connOut = None

(***************************************************************************)
(* The sliding-window rate limiter (SlidingWindowRateLimiter).  Time is in *)
(* whole seconds; a method body runs while its thread holds self.lock.     *)
(***************************************************************************)
max_calls == 2                    \* calls allowed in a window
time_window == 2                  \* length of the window, in seconds
MaxNow == 4                       \* the clock stops here
LimiterUsers == {"u1", "u2"}
Threads == {"t1", "t2"}
LimiterMethods == {"is_allowed", "get_remaining_calls"}

\* the deque after "while user_calls and current_time - user_calls[0] >=
\* self.time_window: user_calls.popleft()"
RECURSIVE DropOld(_, _)
DropOld(user_calls, current_time) ==
    IF user_calls # <<>> /\ current_time - Head(user_calls) >= time_window
    THEN DropOld(Tail(user_calls), current_time)
    ELSE user_calls

\* "if len(user_calls) >= self.max_calls", with one call more let through
LimitExceededOneLate(user_calls) == Len(user_calls) > max_calls

\* "if len(user_calls) >= self.max_calls"
LimitExceeded(user_calls) == Len(user_calls) >= max_calls

\* is_allowed: the deque after the call and the first value returned
IsAllowed(user_calls, current_time) ==
    LET kept == DropOld(user_calls, current_time)
    IN  IF LimitExceeded(kept)
        THEN [user_calls |-> kept, allowed |-> FALSE]
        ELSE [user_calls |-> Append(kept, current_time), allowed |-> TRUE]

\* get_remaining_calls: the deque after the call and the value returned
GetRemainingCalls(user_calls, current_time) ==
    LET kept == DropOld(user_calls, current_time)
    IN  [user_calls |-> kept,
         remaining |-> IF max_calls - Len(kept) > 0
                       THEN max_calls - Len(kept) ELSE 0]

\* the latest max_calls + 1 allowed call times, with t added
Remember(times, t) ==
    LET all == Append(times, t)
    IN  IF Len(all) > max_calls + 1 THEN Tail(all) ELSE all

IdleLim ==
    /\ time = 0 /\ calls = <<>> /\ recent = <<>> /\ lock = None
    /\ threadPc = <<>> /\ limitOut = None

(***************************************************************************)
(* Scanning all configured symbols (SignalGenerator.scan_all_symbols).     *)
(***************************************************************************)
\* bound of the model: the length of the configured symbol list
MaxSymbols == 3
Symbols == {"EURUSD", "GBPUSD", "XAUUSD"}

\* what a generate_signal call comes to: a signal, None, or an exception
ScanAnswers == {"signal", "none", "raises"}

\* the configured lists TRADING_SYMBOLS
SymbolLists == UNION {[1..n -> Symbols] : n \in 0..MaxSymbols}

ScanAllInputs ==
    [symbols : SymbolLists, answers : [1..MaxSymbols -> ScanAnswers]]

\* signals[symbol] = value
DictSet(d, k, v) == [x \in DOMAIN d \cup {k} |-> IF x = k THEN v ELSE d[x]]

\* the value the loop stores for a symbol: an exception stores None
ScannedValue(sym, answer) ==
    IF answer = "signal" THEN [signal |-> TRUE, symbol |-> sym] ELSE NoSignal

\* a loop without the try: the first exception ends the scan
RECURSIVE ScanFromUncaught(_, _, _, _)
ScanFromUncaught(in, i, signals, scanned) ==
    IF i > Len(in.symbols)
    THEN [raised |-> FALSE, signals |-> signals, scanned |-> scanned]
    ELSE IF in.answers[i] = "raises"
    THEN [raised |-> TRUE, signals |-> signals,
          scanned |-> Append(scanned, in.symbols[i])]
    ELSE ScanFromUncaught(in, i + 1,
             DictSet(signals, in.symbols[i],
                     ScannedValue(in.symbols[i], in.answers[i])),
             Append(scanned, in.symbols[i]))

ScanAllSymbolsUncaught(in) == ScanFromUncaught(in, 1, <<>>, <<>>)

\* the loop of scan_all_symbols from the i-th configured symbol on; scanned
\* lists the generate_signal calls made
RECURSIVE ScanFrom(_, _, _, _)
ScanFrom(in, i, signals, scanned) ==
    IF i > Len(in.symbols)
    THEN [raised |-> FALSE, signals |-> signals, scanned |-> scanned]
    ELSE ScanFrom(in, i + 1,
             DictSet(signals, in.symbols[i],
                     ScannedValue(in.symbols[i], in.answers[i])),
             Append(scanned, in.symbols[i]))

\* SignalGenerator.scan_all_symbols
ScanAllSymbols(in) == ScanFrom(in, 1, <<>>, <<>>)

IdleCall == callIn = None /\ callOut = None

\* every component but the single call under study is idle
OthersIdle ==
    /\ IdleSizing /\ IdleRisk /\ IdleCopier /\ IdleScan /\ IdleTracker
    /\ IdlePOI /\ IdleRetry /\ IdleRecord /\ IdleFlush /\ IdleBan /\ IdleShut /\ IdleConn /\ IdleLim

\* the variables each component leaves alone
notSizing  == <<riskVars, copierVars, scanVars, trackerVars, poiVars, callVars, retryVars, recordVars, flushVars, banVars, shutVars, connVars, limVars>>
notRisk    == <<sizingVars, copierVars, scanVars, trackerVars, poiVars, callVars, retryVars, recordVars, flushVars, banVars, shutVars, connVars, limVars>>
notCopier  == <<sizingVars, riskVars, scanVars, trackerVars, poiVars, callVars, retryVars, recordVars, flushVars, banVars, shutVars, connVars, limVars>>
notScan    == <<sizingVars, riskVars, copierVars, trackerVars, poiVars, callVars, retryVars, recordVars, flushVars, banVars, shutVars, connVars, limVars>>
notTracker == <<sizingVars, riskVars, copierVars, scanVars, poiVars, callVars, retryVars, recordVars, flushVars, banVars, shutVars, connVars, limVars>>
notPOI     == <<sizingVars, riskVars, copierVars, scanVars, trackerVars, callVars, retryVars, recordVars, flushVars, banVars, shutVars, connVars, limVars>>
notCall    == <<sizingVars, riskVars, copierVars, scanVars, trackerVars, poiVars, retryVars, recordVars, flushVars, banVars, shutVars, connVars, limVars>>
notRetry   == <<sizingVars, riskVars, copierVars, scanVars, trackerVars, poiVars, callVars, recordVars, flushVars, banVars, shutVars, connVars, limVars>>
notRecord  == <<sizingVars, riskVars, copierVars, scanVars, trackerVars, poiVars, callVars, retryVars, flushVars, banVars, shutVars, connVars, limVars>>
notFlush   == <<sizingVars, riskVars, copierVars, scanVars, trackerVars, poiVars, callVars, retryVars, recordVars, banVars, shutVars, connVars, limVars>>
notBan     == <<sizingVars, riskVars, copierVars, scanVars, trackerVars, poiVars, callVars, retryVars, recordVars, flushVars, shutVars, connVars, limVars>>
notShut    == <<sizingVars, riskVars, copierVars, scanVars, trackerVars, poiVars, callVars, retryVars, recordVars, flushVars, banVars, connVars, limVars>>
notConn    == <<sizingVars, riskVars, copierVars, scanVars, trackerVars, poiVars, callVars, retryVars, recordVars, flushVars, banVars, shutVars, limVars>>
notLim     == <<sizingVars, riskVars, copierVars, scanVars, trackerVars, poiVars, callVars, retryVars, recordVars, flushVars, banVars, shutVars, connVars>>

(***************************************************************************)
(* Actions of the position-sizing specification.                           *)
(***************************************************************************)
CalcPositionSize ==
    /\ sizeIn # None
    /\ sizeOut = None
    /\ sizeOut' = [lot |-> CalculatePositionSize(sizeIn)]
    /\ UNCHANGED <<sizeIn, notSizing>>

InitSizing ==
    /\ sizeIn \in SizeInputs /\ sizeOut = None
    /\ IdleRisk /\ IdleCopier /\ IdleScan /\ IdleTracker /\ IdlePOI /\ IdleCall /\ IdleRetry /\ IdleRecord /\ IdleFlush /\ IdleBan /\ IdleShut /\ IdleConn /\ IdleLim

NextSizing == CalcPositionSize

SpecSizing == InitSizing /\ [][NextSizing]_vars

(***************************************************************************)
(* Actions of the risk-gate specification.                                 *)
(***************************************************************************)
\* a trade of the account is closed today with profit p
CloseTrade(p) ==
    /\ Len(trades) < MaxTrades
    /\ trades' = Append(trades, [day |-> today, profit |-> p])
    /\ riskOut' = None
    /\ UNCHANGED <<today, elapsed, notRisk>>

\* midnight UTC passes
NextDay ==
    /\ elapsed < MaxDays
    /\ today' = today + 1
    /\ elapsed' = elapsed + 1
    /\ riskOut' = None
    /\ UNCHANGED <<trades, notRisk>>

CheckRiskLimitsCall(in) ==
    /\ riskOut = None
    /\ riskOut' = [in |-> in, ret |-> CheckRiskLimits(trades, today, in)]
    /\ UNCHANGED <<today, elapsed, trades, notRisk>>

InitRisk ==
    /\ today \in 0..(DaysPerWeek - 1)
    /\ elapsed = 0
    /\ trades = <<>>
    /\ riskOut = None
    /\ IdleSizing /\ IdleCopier /\ IdleScan /\ IdleTracker /\ IdlePOI /\ IdleCall /\ IdleRetry /\ IdleRecord /\ IdleFlush /\ IdleBan /\ IdleShut /\ IdleConn /\ IdleLim

NextRisk ==
    \/ \E p \in Profits : CloseTrade(p)
    \/ NextDay
    \/ \E in \in RiskInputs : CheckRiskLimitsCall(in)

SpecRisk == InitRisk /\ [][NextRisk]_vars

(***************************************************************************)
(* Actions of the trade-copier specification.                              *)
(***************************************************************************)
\* RiskManager.check_risk_limits is asked about account a for the signal;
\* an approval is remembered
RiskGateCall(a, in) ==
    /\ signal # None
    /\ a \notin approvals
    /\ CheckRiskLimits(<<>>, 0, in).ok
    /\ approvals' = approvals \cup {a}
    /\ UNCHANGED <<accounts, signal, orders, notCopier>>

\* TradeCopier.distribute_signal: every selected account is served in turn
DistributeSignal(env) ==
    /\ signal # None
    /\ LET done == [a \in ActiveAccounts(accounts) |->
                        ExecuteForAccount(a, accounts[a], signal, env[a])]
       IN  orders' = orders \cup
                {done[a].order : a \in {b \in DOMAIN done : done[b].sent}}
    /\ signal' = None
    /\ UNCHANGED <<accounts, approvals, notCopier>>

InitCopier ==
    /\ accounts \in [Accounts -> AccountRows]
    /\ signal \in Signals
    /\ approvals = {}
    /\ orders = {}
    /\ IdleSizing /\ IdleRisk /\ IdleScan /\ IdleTracker /\ IdlePOI /\ IdleCall /\ IdleRetry /\ IdleRecord /\ IdleFlush /\ IdleBan /\ IdleShut /\ IdleConn /\ IdleLim

NextCopier ==
    \/ \E a \in Accounts, in \in RiskInputs : RiskGateCall(a, in)
    \/ \E env \in [Accounts -> BrokerAnswers] : DistributeSignal(env)

SpecCopier == InitCopier /\ [][NextCopier]_vars

(***************************************************************************)
(* Actions of the signal-generation specification.                         *)
(***************************************************************************)
GenerateSignalCall ==
    /\ scanIn # None
    /\ scanOut = None
    /\ scanOut' = GenerateSignal(scanIn)
    /\ assembled' = AssemblerCall(scanIn)
    /\ scanLog' = GenerateSignalLog(scanIn)
    /\ UNCHANGED <<scanIn, notScan>>

InitScan ==
    /\ scanIn \in ScanInputs /\ scanOut = None /\ assembled = None
    /\ scanLog = ""
    /\ IdleSizing /\ IdleRisk /\ IdleCopier /\ IdleTracker /\ IdlePOI /\ IdleCall /\ IdleRetry /\ IdleRecord /\ IdleFlush /\ IdleBan /\ IdleShut /\ IdleConn /\ IdleLim

NextScan == GenerateSignalCall

SpecScan == InitScan /\ [][NextScan]_vars

(***************************************************************************)
(* Actions of the signal-tracker specification.                            *)
(***************************************************************************)
\* time passes
Tick(step) ==
    /\ clock + step <= MaxClock
    /\ clock' = clock + step
    /\ dupOut' = None
    /\ UNCHANGED <<store, emittedAt, notTracker>>

\* record_signal(sig, was_sent); emittedAt remembers when the setup was
\* last sent to the users
RecordSignalCall(sig, was_sent, dbOk) ==
    LET h == GenerateSignalHash(sig)
    IN  /\ h \in DOMAIN store => store[h].occurrence_count < MaxOccurrences
        /\ store' = RecordSignal(store, clock, sig, was_sent, dbOk)
        /\ emittedAt' = IF was_sent THEN WithRow(emittedAt, h, clock)
                        ELSE emittedAt
        /\ dupOut' = None
        /\ UNCHANGED <<clock, notTracker>>

IsDuplicateCall(sig, dbOk) ==
    /\ dupOut = None
    /\ dupOut' = [hash |-> GenerateSignalHash(sig), at |-> clock,
                  dbOk |-> dbOk, ret |-> IsDuplicate(store, clock, sig, dbOk)]
    /\ UNCHANGED <<clock, store, emittedAt, notTracker>>

CleanupCall(days, dbOk) ==
    /\ store' = CleanupOldSignals(store, clock, days, dbOk)
    /\ dupOut' = None
    /\ UNCHANGED <<clock, emittedAt, notTracker>>

InitTracker ==
    /\ clock = 0 /\ store = <<>> /\ emittedAt = <<>> /\ dupOut = None
    /\ IdleSizing /\ IdleRisk /\ IdleCopier /\ IdleScan /\ IdlePOI /\ IdleCall /\ IdleRetry /\ IdleRecord /\ IdleFlush /\ IdleBan /\ IdleShut /\ IdleConn /\ IdleLim

NextTracker ==
    \/ \E step \in ClockSteps : Tick(step)
    \/ \E sig \in TrackedSignals, was_sent \in BOOLEAN, dbOk \in BOOLEAN :
            RecordSignalCall(sig, was_sent, dbOk)
    \/ \E sig \in TrackedSignals, dbOk \in BOOLEAN : IsDuplicateCall(sig, dbOk)
    \/ \E days \in CleanupDays, dbOk \in BOOLEAN : CleanupCall(days, dbOk)

SpecTracker == InitTracker /\ [][NextTracker]_vars

(***************************************************************************)
(* Actions of the signal-recording specification: record_signal calls      *)
(* counted per hash, and no cleanup.                                       *)
(***************************************************************************)
RecordSignalCounted(sig, was_sent, dbOk) ==
    LET h == GenerateSignalHash(sig)
    IN  /\ CallsFor(h).calls < MaxOccurrences
        /\ store' = RecordSignal(store, clock, sig, was_sent, dbOk)
        /\ recordCalls' =
               WithRow(recordCalls, h,
                   [calls |-> CallsFor(h).calls + 1,
                    written |-> CallsFor(h).written + IF dbOk THEN 1 ELSE 0])
        /\ emittedAt' = IF was_sent THEN WithRow(emittedAt, h, clock)
                        ELSE emittedAt
        /\ dupOut' = None
        /\ UNCHANGED <<clock, sizingVars, riskVars, copierVars, scanVars,
                       poiVars, callVars, retryVars, flushVars, banVars,
                       shutVars, connVars, limVars>>

InitRecord ==
    /\ IdleTracker /\ IdleRecord
    /\ IdleSizing /\ IdleRisk /\ IdleCopier /\ IdleScan /\ IdlePOI /\ IdleCall /\ IdleRetry /\ IdleFlush /\ IdleBan /\ IdleShut /\ IdleConn /\ IdleLim

NextRecord ==
    \/ \E step \in ClockSteps : Tick(step)
    \/ \E sig \in TrackedSignals, was_sent \in BOOLEAN, dbOk \in BOOLEAN :
            RecordSignalCounted(sig, was_sent, dbOk)

SpecRecord == InitRecord /\ [][NextRecord]_vars

(***************************************************************************)
(* Actions of the POI-detection specification.                             *)
(***************************************************************************)
\* the feed delivers the next candle of the series
AppendCandle(c) ==
    /\ Len(candles) < MaxCandles
    /\ candles' = Append(candles, c)
    /\ poiOut' = None
    /\ UNCHANGED notPOI

DetectOrderBlocksCall(direction, inducement_index, structure_break_index) ==
    /\ poiOut = None
    /\ LET ret == DetectOrderBlocks(candles, direction, inducement_index,
                                    structure_break_index)
       IN  poiOut' = [detector |-> "order_blocks", direction |-> direction,
                      inducement_index |->
                          InducementIndex(candles, inducement_index,
                                          structure_break_index),
                      raised |-> ret.raised, list |-> ret.list]
    /\ UNCHANGED <<candles, notPOI>>

DetectBreakerBlocksCall(direction, inducement_index, structure_break_index) ==
    /\ poiOut = None
    /\ LET ret == DetectBreakerBlocks(candles, direction, inducement_index,
                                      structure_break_index)
       IN  poiOut' = [detector |-> "breaker_blocks", direction |-> direction,
                      inducement_index |->
                          InducementIndex(candles, inducement_index,
                                          structure_break_index),
                      raised |-> ret.raised, list |-> ret.list]
    /\ UNCHANGED <<candles, notPOI>>

DetectFairValueGapsCall(direction) ==
    /\ poiOut = None
    /\ LET ret == DetectFairValueGaps(candles, direction)
       IN  poiOut' = [detector |-> "fair_value_gaps", direction |-> direction,
                      inducement_index |-> Len(candles) - 1,
                      raised |-> ret.raised, list |-> ret.list]
    /\ UNCHANGED <<candles, notPOI>>

InitPOI ==
    /\ candles = [i \in 1..WarmUpCandles |-> DojiCandle]
    /\ poiOut = None
    /\ IdleSizing /\ IdleRisk /\ IdleCopier /\ IdleScan /\ IdleTracker /\ IdleCall /\ IdleRetry /\ IdleRecord /\ IdleFlush /\ IdleBan /\ IdleShut /\ IdleConn /\ IdleLim

NextPOI ==
    \/ \E c \in Candles : AppendCandle(c)
    \/ \E direction \in Directions, ind \in InducementArgs(candles),
          sbi \in StructureBreakArgs(candles) :
            DetectOrderBlocksCall(direction, ind, sbi)
    \/ \E direction \in Directions, ind \in InducementArgs(candles),
          sbi \in StructureBreakArgs(candles) :
            DetectBreakerBlocksCall(direction, ind, sbi)
    \/ \E direction \in Directions : DetectFairValueGapsCall(direction)

SpecPOI == InitPOI /\ [][NextPOI]_vars

(***************************************************************************)
(* Actions of the long-series POI specification: the series of SpecPOI     *)
(* are too short for a candle distance to pass max_poi_distance.           *)
(***************************************************************************)
\* the feed delivers a quiet candle
ExtendQuiet ==
    /\ Len(candles) < MaxLongCandles
    /\ candles' = Append(candles, DojiCandle)
    /\ poiOut' = None
    /\ UNCHANGED notPOI

InitPOIFar ==
    /\ \E opening \in LongOpenings :
            candles = [i \in 1..WarmUpCandles |-> DojiCandle] \o opening
    /\ poiOut = None
    /\ IdleSizing /\ IdleRisk /\ IdleCopier /\ IdleScan /\ IdleTracker /\ IdleCall /\ IdleRetry /\ IdleRecord /\ IdleFlush /\ IdleBan /\ IdleShut /\ IdleConn /\ IdleLim

NextPOIFar ==
    \/ ExtendQuiet
    \/ \E direction \in Directions, ind \in InducementArgs(candles),
          sbi \in StructureBreakArgs(candles) :
            DetectOrderBlocksCall(direction, ind, sbi)
    \/ \E direction \in Directions, ind \in InducementArgs(candles),
          sbi \in StructureBreakArgs(candles) :
            DetectBreakerBlocksCall(direction, ind, sbi)

SpecPOIFar == InitPOIFar /\ [][NextPOIFar]_vars

(***************************************************************************)
(* Actions of the trade-validation specification.                          *)
(***************************************************************************)
ValidateTradeCall ==
    /\ callIn # None
    /\ callOut = None
    /\ callOut' = ValidateTrade(callIn)
    /\ UNCHANGED <<callIn, notCall>>

InitValidate == callIn \in ValidateInputs /\ callOut = None /\ OthersIdle

NextValidate == ValidateTradeCall

SpecValidate == InitValidate /\ [][NextValidate]_vars

(***************************************************************************)
(* Actions of the Kelly specification.                                     *)
(***************************************************************************)
CalculateKellyCall ==
    /\ callIn # None
    /\ callOut = None
    /\ callOut' = CalculateKellyCriterion(callIn)
    /\ UNCHANGED <<callIn, notCall>>

InitKelly == callIn \in KellyInputs /\ callOut = None /\ OthersIdle

NextKelly == CalculateKellyCall

SpecKelly == InitKelly /\ [][NextKelly]_vars

(***************************************************************************)
(* Actions of the retry specification.                                     *)
(***************************************************************************)
\* the broker connection drops: a new outage begins
ConnectionLost ==
    /\ connected
    /\ connected' = FALSE
    /\ waited' = 0
    /\ reconnects' = <<>>
    /\ UNCHANGED <<queue, deliveries, notRetry>>

\* one iteration of _run_mt5_heartbeat: sleep, check the connection,
\* reconnect when it is down; an exception costs one more sleep
HeartbeatIteration(raises, connectOk) ==
    /\ IF raises
       THEN /\ Slept(HeartbeatSleep + HeartbeatErrorSleep) <= MaxWaited
            /\ waited' = Slept(HeartbeatSleep + HeartbeatErrorSleep)
            /\ UNCHANGED <<connected, reconnects>>
       ELSE IF connected
       THEN UNCHANGED <<connected, waited, reconnects>>
       ELSE /\ Len(reconnects) < MaxReconnects
            /\ reconnects' = Append(reconnects, Slept(HeartbeatSleep))
            /\ connected' = connectOk
            /\ waited' = 0
    /\ UNCHANGED <<queue, deliveries, notRetry>>

\* MessageQueue.queue_message: a failed insert is swallowed
QueueMessage(dbOk) ==
    /\ Len(queue) < MaxMessages
    /\ IF dbOk
       THEN /\ queue' = Append(queue, [attempts |-> 0, sent |-> FALSE])
            /\ deliveries' = Append(deliveries, <<>>)
       ELSE UNCHANGED <<queue, deliveries>>
    /\ UNCHANGED <<connected, waited, reconnects, notRetry>>

\* one run of _run_message_queue_processor: sleep, then deliver every
\* selected row; a first attempt records 0, a retry the sleep before it
ProcessQueue(out) ==
    /\ Selected(queue) # {}
    /\ \A i \in Selected(queue) : Len(deliveries[i]) < MaxDeliveries
    /\ queue' = SendQueuedMessages(queue, out)
    /\ deliveries' =
           [i \in 1..Len(queue) |->
               IF i \in Selected(queue)
               THEN Append(deliveries[i],
                           IF deliveries[i] = <<>> THEN 0 ELSE QueueSleep)
               ELSE deliveries[i]]
    /\ UNCHANGED <<connected, waited, reconnects, notRetry>>

InitRetry ==
    /\ IdleRetry
    /\ IdleSizing /\ IdleRisk /\ IdleCopier /\ IdleScan /\ IdleTracker /\ IdlePOI /\ IdleCall /\ IdleRecord /\ IdleFlush /\ IdleBan /\ IdleShut /\ IdleConn /\ IdleLim

NextRetry ==
    \/ ConnectionLost
    \/ \E raises \in BOOLEAN, connectOk \in BOOLEAN :
          HeartbeatIteration(raises, connectOk)
    \/ \E dbOk \in BOOLEAN : QueueMessage(dbOk)
    \/ \E out \in [1..MaxMessages -> DeliveryOutcomes] : ProcessQueue(out)

SpecRetry == InitRetry /\ [][NextRetry]_vars

(***************************************************************************)
(* Actions of the queue-flush specification: send_queued_messages runs     *)
(* that overlap.  A run fetches its rows once and then awaits one          *)
(* bot.send_message after the other; another run can start in between.     *)
(***************************************************************************)
\* send_queued_messages up to its first await: the SELECT; the startup
\* flush runs once, before the processor's first run
StartRun(r) ==
    /\ ~runs[r].running
    /\ r = "flush" => ~runs["flush"].started /\ ~runs["processor"].started
    /\ Selected(queue) # {}
    /\ runs' = [runs EXCEPT ![r] =
                    [running |-> TRUE, pending |-> SelectedFrom(queue, 1),
                     started |-> TRUE]]
    /\ UNCHANGED <<delivered, retryVars, sizingVars, riskVars, copierVars,
                   scanVars, trackerVars, poiVars, callVars, recordVars, banVars,
                   shutVars, connVars, limVars>>

\* one turn of the loop: bot.send_message for the next fetched row, then
\* _mark_sent or _update_failure; the run ends after its last row
SendNext(r, outcome) ==
    /\ runs[r].running
    /\ LET i == Head(runs[r].pending)
           rest == Tail(runs[r].pending)
       IN  /\ DeliveredOf(i).times < MaxDeliveries
           /\ delivered' =
                  IF Received(outcome)
                  THEN WithRow(delivered, i,
                          [times |-> DeliveredOf(i).times + 1,
                           markLost |-> DeliveredOf(i).markLost
                                           \/ outcome = "sent_unmarked"])
                  ELSE delivered
           /\ queue' = [queue EXCEPT ![i] = RowAfter(queue[i], outcome)]
           /\ runs' = [runs EXCEPT ![r] =
                           IF rest = <<>> THEN RunOver
                           ELSE [running |-> TRUE, pending |-> rest,
                                 started |-> TRUE]]
    /\ UNCHANGED <<connected, waited, reconnects, deliveries, sizingVars,
                   riskVars, copierVars, scanVars, trackerVars, poiVars,
                   callVars, recordVars, banVars,
                   shutVars, connVars, limVars>>

InitFlush ==
    /\ IdleFlush /\ IdleRetry
    /\ IdleSizing /\ IdleRisk /\ IdleCopier /\ IdleScan /\ IdleTracker /\ IdlePOI /\ IdleCall /\ IdleRecord /\ IdleBan /\ IdleShut /\ IdleConn /\ IdleLim

NextFlush ==
    \/ \E dbOk \in BOOLEAN : QueueMessage(dbOk)
    \/ \E r \in Runs : StartRun(r)
    \/ \E r \in Runs, outcome \in DeliveryOutcomes : SendNext(r, outcome)

SpecFlush == InitFlush /\ [][NextFlush]_vars

(***************************************************************************)
(* Actions of the user-administration specification.                       *)
(***************************************************************************)
\* an administrator runs /ban (or AdminManager.ban_user) on user u
BanUserCall(u) ==
    /\ roles' = BanUser(roles, owned, u).roles
    /\ owned' = BanUser(roles, owned, u).owned
    /\ UNCHANGED <<executions, notBan>>

\* an administrator runs /unban (or AdminManager.unban_user) on user u
UnbanUserCall(u) ==
    /\ roles' = UnbanUser(roles, u)
    /\ UNCHANGED <<owned, executions, notBan>>

\* user u completes /addaccount; the broker accepts the login or not
AddAccountCall(u, connects) ==
    /\ Len(owned) < MaxOwned
    /\ owned' = AddAccount(owned, roles[u], u, connects)
    /\ UNCHANGED <<roles, executions, notBan>>

\* user u runs /testconnection on one of their accounts
TestConnectionCall(i, connects) ==
    /\ i \in DOMAIN owned
    /\ owned' = [owned EXCEPT ![i] = TestConnection(owned[i], connects)]
    /\ UNCHANGED <<roles, executions, notBan>>

\* user u confirms /enableautotrade
EnableAutoCall(u) ==
    /\ owned' = EnableAuto(owned, u)
    /\ UNCHANGED <<roles, executions, notBan>>

\* TradeCopier.distribute_signal: every selected account is served; served[i]
\* tells whether _execute_for_account places the order on account i
DistributeToSelected(served) ==
    /\ executions' = executions \cup
            {[account |-> i, user_id |-> owned[i].user_id,
              role |-> roles[owned[i].user_id]] :
                i \in {j \in SelectedAccounts(owned) : served[j]}}
    /\ UNCHANGED <<roles, owned, notBan>>

InitBan ==
    /\ roles \in [UserIds -> {"admin", "user"}]
    /\ owned = <<>>
    /\ executions = {}
    /\ IdleSizing /\ IdleRisk /\ IdleCopier /\ IdleScan /\ IdleTracker /\ IdlePOI /\ IdleCall /\ IdleRetry /\ IdleRecord /\ IdleFlush /\ IdleShut /\ IdleConn /\ IdleLim

NextBan ==
    \/ \E u \in UserIds : BanUserCall(u)
    \/ \E u \in UserIds : UnbanUserCall(u)
    \/ \E u \in UserIds, connects \in BOOLEAN : AddAccountCall(u, connects)
    \/ \E i \in 1..MaxOwned, connects \in BOOLEAN : TestConnectionCall(i, connects)
    \/ \E u \in UserIds : EnableAutoCall(u)
    \/ \E served \in [1..MaxOwned -> BOOLEAN] : DistributeToSelected(served)

SpecBan == InitBan /\ [][NextBan]_vars

(***************************************************************************)
(* Actions of the shutdown specification.  The event loop serves the       *)
(* background loops as long as main() has not returned.                    *)
(***************************************************************************)
\* "while self.running" of loop t
LoopTest(t) ==
    /\ mainPc # "closed"
    /\ taskPc[t] = "loop_test"
    /\ taskPc' = [taskPc EXCEPT ![t] = AfterLoopTest(running)]
    /\ UNCHANGED <<running, shutdown_event, mainPc, started, notShut>>

\* the sleep of loop t is over and its unit of work begins
SleepOver(t, raises) ==
    /\ mainPc # "closed"
    /\ taskPc[t] = "sleeping"
    /\ started' = started \cup {[loop |-> t, running |-> running]}
    /\ taskPc' = [taskPc EXCEPT ![t] = AfterSleep(t, raises)]
    /\ UNCHANGED <<running, shutdown_event, mainPc, notShut>>

\* an awaited unit of work ends
UnitOver(t, raises) ==
    /\ mainPc # "closed"
    /\ taskPc[t] = "working"
    /\ taskPc' = [taskPc EXCEPT ![t] = AfterUnit(raises)]
    /\ UNCHANGED <<running, shutdown_event, mainPc, started, notShut>>

\* the sleep of the except branch is over
ErrorSleepOver(t) ==
    /\ mainPc # "closed"
    /\ taskPc[t] = "error_sleep"
    /\ taskPc' = [taskPc EXCEPT ![t] = "loop_test"]
    /\ UNCHANGED <<running, shutdown_event, mainPc, started, notShut>>

\* signal_handler on SIGINT or SIGTERM
SignalHandler ==
    /\ mainPc = "waiting"
    /\ shutdown_event' = TRUE
    /\ UNCHANGED <<running, mainPc, taskPc, started, notShut>>

\* run() leaves shutdown_event.wait() and shutdown() starts, up to its sleep
Shutdown ==
    /\ mainPc = "waiting"
    /\ shutdown_event
    /\ running' = FALSE
    /\ shutdown_event' = TRUE
    /\ mainPc' = "grace"
    /\ UNCHANGED <<taskPc, started, notShut>>

\* the two seconds of shutdown() are over: the session is closed, the
\* connector disconnected, main() returns
ShutdownComplete ==
    /\ mainPc = "grace"
    /\ mainPc' = "closed"
    /\ taskPc' = Cancelled(taskPc)
    /\ UNCHANGED <<running, shutdown_event, started, notShut>>

InitShut ==
    /\ running = TRUE
    /\ shutdown_event = FALSE
    /\ mainPc = "waiting"
    /\ taskPc = [t \in Loops |-> "loop_test"]
    /\ started = {}
    /\ IdleSizing /\ IdleRisk /\ IdleCopier /\ IdleScan /\ IdleTracker /\ IdlePOI /\ IdleCall /\ IdleRetry /\ IdleRecord /\ IdleFlush /\ IdleBan /\ IdleConn /\ IdleLim

NextShut ==
    \/ \E t \in Loops : LoopTest(t)
    \/ \E t \in Loops, raises \in BOOLEAN : SleepOver(t, raises)
    \/ \E t \in Loops, raises \in BOOLEAN : UnitOver(t, raises)
    \/ \E t \in Loops : ErrorSleepOver(t)
    \/ SignalHandler
    \/ Shutdown
    \/ ShutdownComplete

SpecShut == InitShut /\ [][NextShut]_vars

(***************************************************************************)
(* Actions of the connector specification.                                 *)
(***************************************************************************)
\* /testconnection, or the test add_account makes, for account a
TestConnectionOfCall(a, connects) ==
    /\ configs' = TestConnectionOf(configs, a, connects).configs
    /\ connOut' = [call |-> "test_connection", account |-> a,
                   result |-> TestConnectionOf(configs, a, connects).result]
    /\ UNCHANGED <<active_connections, notConn>>

\* the trade copier asks for the connector of account a
GetConnectorCall(a, active, alive, connects) ==
    /\ configs' =
          GetConnector(configs, active_connections, a, active, alive, connects).configs
    /\ active_connections' =
          GetConnector(configs, active_connections, a, active, alive, connects).cache
    /\ connOut' = [call |-> "get_connector", account |-> a,
                   result |-> GetConnector(configs, active_connections, a,
                                           active, alive, connects).result]
    /\ UNCHANGED notConn

InitConn ==
    /\ configs = [o \in {"settings"} |-> EnvCredentials]
    /\ active_connections = <<>>
    /\ connOut = None
    /\ IdleSizing /\ IdleRisk /\ IdleCopier /\ IdleScan /\ IdleTracker /\ IdlePOI /\ IdleCall /\ IdleRetry /\ IdleRecord /\ IdleFlush /\ IdleBan /\ IdleShut /\ IdleLim

NextConn ==
    \/ \E a \in ConnAccounts, connects \in BOOLEAN : TestConnectionOfCall(a, connects)
    \/ \E a \in ConnAccounts, active \in BOOLEAN, alive \in BOOLEAN, connects \in BOOLEAN :
            GetConnectorCall(a, active, alive, connects)

SpecConn == InitConn /\ [][NextConn]_vars

(***************************************************************************)
(* Actions of the rate-limiter specification.                              *)
(***************************************************************************)
\* a second passes
LimiterTick ==
    /\ time < MaxNow
    /\ time' = time + 1
    /\ UNCHANGED <<calls, recent, lock, threadPc, limitOut, notLim>>

\* thread t calls a method for user u: "with self.lock" is entered and
\* time.time() is read
EnterMethod(t, method, u) ==
    /\ threadPc[t] = None
    /\ lock = None
    /\ lock' = [holder |-> t]
    /\ threadPc' = [threadPc EXCEPT ![t] =
                        [method |-> method, user_id |-> u, current_time |-> time]]
    /\ UNCHANGED <<time, calls, recent, limitOut, notLim>>

\* the rest of is_allowed, up to the release of the lock
IsAllowedReturns(t) ==
    /\ threadPc[t] # None
    /\ threadPc[t].method = "is_allowed"
    /\ LET u == threadPc[t].user_id
           res == IsAllowed(calls[u], threadPc[t].current_time)
       IN  /\ calls' = [calls EXCEPT ![u] = res.user_calls]
           /\ recent' = IF res.allowed
                        THEN [recent EXCEPT ![u] =
                                Remember(recent[u], threadPc[t].current_time)]
                        ELSE recent
           /\ limitOut' = [method |-> "is_allowed", user_id |-> u,
                           current_time |-> threadPc[t].current_time,
                           before |-> calls[u], result |-> res.allowed]
    /\ lock' = None
    /\ threadPc' = [threadPc EXCEPT ![t] = None]
    /\ UNCHANGED <<time, notLim>>

\* the rest of get_remaining_calls, up to the release of the lock
GetRemainingCallsReturns(t) ==
    /\ threadPc[t] # None
    /\ threadPc[t].method = "get_remaining_calls"
    /\ LET u == threadPc[t].user_id
           res == GetRemainingCalls(calls[u], threadPc[t].current_time)
       IN  /\ calls' = [calls EXCEPT ![u] = res.user_calls]
           /\ limitOut' = [method |-> "get_remaining_calls", user_id |-> u,
                           current_time |-> threadPc[t].current_time,
                           before |-> calls[u], result |-> res.remaining]
    /\ lock' = None
    /\ threadPc' = [threadPc EXCEPT ![t] = None]
    /\ UNCHANGED <<time, recent, notLim>>

InitLim ==
    /\ time = 0
    /\ calls = [u \in LimiterUsers |-> <<>>]
    /\ recent = [u \in LimiterUsers |-> <<>>]
    /\ lock = None
    /\ threadPc = [t \in Threads |-> None]
    /\ limitOut = None
    /\ IdleSizing /\ IdleRisk /\ IdleCopier /\ IdleScan /\ IdleTracker /\ IdlePOI /\ IdleCall /\ IdleRetry /\ IdleRecord /\ IdleFlush /\ IdleBan /\ IdleShut /\ IdleConn

NextLim ==
    \/ LimiterTick
    \/ \E t \in Threads, method \in LimiterMethods, u \in LimiterUsers :
            EnterMethod(t, method, u)
    \/ \E t \in Threads : IsAllowedReturns(t)
    \/ \E t \in Threads : GetRemainingCallsReturns(t)

SpecLim == InitLim /\ [][NextLim]_vars

(***************************************************************************)
(* Actions of the scan-all-symbols specification.                          *)
(***************************************************************************)
ScanAllSymbolsCall ==
    /\ callIn # None
    /\ callOut = None
    /\ callOut' = ScanAllSymbols(callIn)
    /\ UNCHANGED <<callIn, notCall>>

InitScanAll == callIn \in ScanAllInputs /\ callOut = None /\ OthersIdle

NextScanAll == ScanAllSymbolsCall

SpecScanAll == InitScanAll /\ [][NextScanAll]_vars

(***************************************************************************)
(* Claims about position sizing (SpecSizing).                              *)
(***************************************************************************)

\* C3: calculate_position_size always returns a lot size inside
\* [MIN_LOT_SIZE, MAX_LOT_SIZE]; in particular never zero or negative,
\* also when account info or symbol metadata is unavailable.
C3_PositionSizeWithinLotBounds ==
    sizeOut # None =>
        (MIN_LOT_SIZE <= sizeOut.lot /\ sizeOut.lot <= MAX_LOT_SIZE)

(***************************************************************************)
(* Claims about the risk-limit gate (SpecRisk).                            *)
(***************************************************************************)
C5_Called == riskOut # None
C5_Approved == C5_Called /\ riskOut.ret.ok

\* the account's realized P&L of today and of the trailing seven days
\* (today and the six days before it)
C5_ActualDailyPnl == SumProfitSince(trades, today)
C5_ActualTrailing7Pnl == SumProfitSince(trades, today - (DaysPerWeek - 1))

\* C5 as stated: approval only if, for the account's actual state, today's
\* realized P&L >= -(balance x max_daily_loss_percent), open positions <
\* max_open_positions, margin level >= 200% and the trailing 7-day P&L >=
\* -(balance x 10%).
C5_ApprovalImpliesActualLimits ==
    C5_Approved =>
        /\ C5_ActualDailyPnl * 100 >= -(riskOut.in.balance * MAX_DAILY_LOSS_PERCENT)
        /\ riskOut.in.positions < MAX_OPEN_POSITIONS
        /\ riskOut.in.marginLevel >= MarginFloor
        /\ C5_ActualTrailing7Pnl * 100 >= -(riskOut.in.balance * WeeklyLossPercent)

\* what the gate reads: a P&L query that fails counts as 0, a position query
\* that fails counts as no open position, and the week starts on Monday
C6_ReadDailyPnl == IF riskOut.in.dailyDbOk THEN SumProfitSince(trades, today) ELSE 0
C6_MondayOfThisWeek ==
    CHOOSE d \in (today - DaysPerWeek + 1)..today : d % DaysPerWeek = 0
C6_ReadWeekToDatePnl ==
    IF riskOut.in.weeklyDbOk THEN SumProfitSince(trades, C6_MondayOfThisWeek) ELSE 0
C6_ReadPositions == IF riskOut.in.execOk THEN riskOut.in.positions ELSE 0

\* the checks of the gate on the values it read, in the order of the claim
C6_DailyFails ==
    C6_ReadDailyPnl * 100 < -(riskOut.in.balance * MAX_DAILY_LOSS_PERCENT)
C6_PositionsFail == C6_ReadPositions >= MAX_OPEN_POSITIONS
C6_MarginFails == riskOut.in.marginLevel < MarginFloor
C6_WeeklyFails ==
    C6_ReadWeekToDatePnl * 100 < -(riskOut.in.balance * WeeklyLossPercent)

C6_FirstFailingReason ==
    IF C6_DailyFails THEN "Daily loss limit reached"
    ELSE IF C6_PositionsFail THEN "Max positions reached"
    ELSE IF C6_MarginFails THEN "Low margin level"
    ELSE IF C6_WeeklyFails THEN "Weekly loss limit reached"
    ELSE "All risk checks passed"

\* C6: the checks are evaluated in the order daily loss, open positions,
\* margin level, weekly loss, and the reason returned is that of the first
\* failing check; a daily P&L one below the daily-loss threshold gives False
\* with the daily-loss reason whatever the other checks say.
C6_ReasonIsFirstFailingCheck ==
    (C5_Called /\ riskOut.in.infoOk) =>
        /\ riskOut.ret.reason = C6_FirstFailingReason
        /\ riskOut.ret.ok = (C6_FirstFailingReason = "All risk checks passed")
        /\ (C6_ReadDailyPnl * 100 = -(riskOut.in.balance * MAX_DAILY_LOSS_PERCENT) - 100
                => (~riskOut.ret.ok /\ riskOut.ret.reason = "Daily loss limit reached"))

\* daily P&L exactly one below the threshold while every other check passes
C6_Witness ==
    /\ C5_Called /\ riskOut.in.infoOk
    /\ riskOut.in.dailyDbOk /\ riskOut.in.weeklyDbOk /\ riskOut.in.execOk
    /\ C6_ReadDailyPnl * 100 = -(riskOut.in.balance * MAX_DAILY_LOSS_PERCENT) - 100
    /\ ~C6_PositionsFail /\ ~C6_MarginFails /\ ~C6_WeeklyFails
    /\ ~riskOut.ret.ok /\ riskOut.ret.reason = "Daily loss limit reached"

(***************************************************************************)
(* Claims about the trade copier (SpecCopier).                             *)
(***************************************************************************)

\* C2: no market or pending order is sent for an account unless the risk
\* gate (check_risk_limits) approved that account for that signal.
C2_OrdersAreRiskApproved == \A o \in orders : o.account \in approvals

\* C4: every order the trade copier sends carries a lot size within
\* [MIN_LOT_SIZE, MAX_LOT_SIZE].
C4_OrderLotsWithinBounds ==
    \A o \in orders :
        /\ MIN_LOT_SIZE * o.lot.d <= o.lot.n
        /\ o.lot.n <= MAX_LOT_SIZE * o.lot.d

(***************************************************************************)
(* Claims about signal generation (SpecScan).                              *)
(***************************************************************************)
C1_Returned == scanOut # None /\ scanOut # NoSignal

C7_CheckedAfterEmission == dupOut # None /\ dupOut.hash \in DOMAIN emittedAt

C7_WithinCooldown == dupOut.at - emittedAt[dupOut.hash] < cooldown_hours

C7_ReportedWithElapsedTime ==
    /\ dupOut.ret.dup
    /\ dupOut.ret.reason.kind = "duplicate"
    /\ dupOut.ret.reason.hours_ago <= dupOut.at - emittedAt[dupOut.hash]

C7_EmissionOnRecord ==
    /\ dupOut.hash \in DOMAIN store
    /\ store[dupOut.hash].last_seen >= emittedAt[dupOut.hash]

C8_SubmittedOnlyDuringCooldown ==
    dupOut.hash \in DOMAIN store =>
        store[dupOut.hash].last_seen - emittedAt[dupOut.hash] < cooldown_hours

\* C8: once the cooldown has expired since a setup was emitted, the next
\* submission of the same setup is not reported as a duplicate, even if it
\* was re-submitted and suppressed during the cooldown.
C8_NotDuplicateAfterCooldown ==
    C7_CheckedAfterEmission
        /\ dupOut.at - emittedAt[dupOut.hash] >= cooldown_hours
        /\ C8_SubmittedOnlyDuringCooldown
    => ~dupOut.ret.dup

(***************************************************************************)
(* Claims about POI detection (SpecPOI).                                   *)
(***************************************************************************)
\* a detector returned a list
C9_Returned == poiOut # None /\ ~poiOut.raised

C10_MidpointBreached(i) ==
    \E j \in (i + 1)..poiOut.inducement_index :
        /\ j < Len(candles)
        /\ ReachesMeanThreshold(candles, i, j, poiOut.direction)

C10_OrderBlocksReturned == C9_Returned /\ poiOut.detector = "order_blocks"

C11_BlocksReturned ==
    C9_Returned /\ poiOut.detector \in {"order_blocks", "breaker_blocks"}

C12_SortedMostRecentFirst ==
    C9_Returned =>
        \A k \in 1..(Len(poiOut.list) - 1) :
            \/ poiOut.list[k].distance_to_liquidity
                    < poiOut.list[k + 1].distance_to_liquidity
            \/ /\ poiOut.list[k].distance_to_liquidity
                    = poiOut.list[k + 1].distance_to_liquidity
               /\ poiOut.list[k].candle_index
                    > poiOut.list[k + 1].candle_index

(***************************************************************************)
(* Claims about trade validation (SpecValidate).                           *)
(***************************************************************************)
\* C13: validate_trade approves only if the risk-limit gate passes, the
\* confidence is at least the ensemble threshold, and the current spread
\* is known and at most 50 points.
C13_ApprovalImpliesChecks ==
    callOut # None /\ callOut.ok =>
        /\ CheckRiskLimits(<<>>, 0, callIn.risk).ok
        /\ callIn.confidence >= ML_ENSEMBLE_THRESHOLD
        /\ callIn.priceOk
        /\ callIn.spread <= MaxSpreadPoints

(***************************************************************************)
(* Claims about the Kelly risk percentage (SpecKelly).                     *)
(***************************************************************************)
\* C14: the Kelly risk percentage returned lies in [0.1%, risk_percentage],
\* so it never exceeds the user's configured risk_percentage.
C14_KellyWithinConfiguredRisk ==
    callOut # None =>
        /\ KellyFloor * callOut.d <= callOut.n
        /\ callOut.n <= callIn.risk_percentage * callOut.d


(***************************************************************************)
(* Claims about missing ML and sentiment inputs                            *)
(***************************************************************************)
\* the inputs of a scan with every missing input replaced by a present,
\* neutral one: an ML prediction that arrived, a sentiment score of zero
C15_NeutralInputs(in) ==
    [in EXCEPT !.ml = "ok",
               !.sentimentScore =
                   IF in.sentimentMissing THEN 0 ELSE in.sentimentScore,
               !.sentimentMissing = FALSE]

C15_InputMissing ==
    /\ scanOut # None
    /\ scanIn.dataOk /\ scanIn.priceOk
    /\ scanIn.ml # "ok" \/ scanIn.sentimentMissing

\* C15: when the ML prediction or the sentiment input is missing or its
\* collaborator fails, the scan of the symbol is not aborted: it gives what
\* the remaining inputs give with the missing input counted as neutral, so
\* a setup can still be produced.
C15_MissingInputIsNeutral ==
    C15_InputMissing => scanOut = GenerateSignal(C15_NeutralInputs(scanIn))


(***************************************************************************)
(* Claims about missing and short candle series                            *)
(***************************************************************************)
C16_SeriesMissingOrShort ==
    /\ scanOut # None
    /\ ~scanIn.dataOk \/ scanIn.length < MIN_CANDLES

\* C16: a candle series that is missing or shorter than 20 candles is never
\* passed to the setup assembler: generate_signal returns "no signal" for
\* the symbol instead, without raising.
C16_InsufficientSeriesNotAssembled ==
    C16_SeriesMissingOrShort =>
        /\ ~assembled.called
        /\ scanOut = NoSignal


(***************************************************************************)
(* Claims about the heartbeat and the message retry queue (SpecRetry).     *)
(***************************************************************************)
\* the delays before the retries (the attempts after the first) grow
C17_Growing(delays) ==
    \A i \in 2..(Len(delays) - 1) : delays[i + 1] > delays[i]

\* the heartbeat gives up of itself: the attempts of one outage stay below
\* the number at which the model stops counting
C17_ReconnectsBounded == Len(reconnects) < MaxReconnects

C17_DeliveriesBounded ==
    \A i \in 1..Len(deliveries) : Len(deliveries[i]) <= MaxAttempts

C17_Backoff ==
    /\ C17_Growing(reconnects)
    /\ \A i \in 1..Len(deliveries) : C17_Growing(deliveries[i])

\* C17: the heartbeat and the message retry queue use bounded retry with
\* backoff: a failing reconnect or delivery is retried only a bounded
\* number of times, with a growing delay between successive attempts.
C17_BoundedRetryWithBackoff ==
    /\ C17_ReconnectsBounded
    /\ C17_DeliveriesBounded
    /\ C17_Backoff


(***************************************************************************)
(* Claims about scanning all symbols (SpecScanAll).                        *)
(***************************************************************************)
C18_Configured == {callIn.symbols[i] : i \in 1..Len(callIn.symbols)}

\* C18: symbols are scanned independently: a failure, an exception or a
\* "no setup" outcome for one symbol never prevents another configured
\* symbol from being scanned, and scan_all_symbols returns exactly one
\* entry for every configured symbol.
C18_EverySymbolScanned ==
    callOut # None =>
        /\ ~callOut.raised
        /\ callOut.scanned = callIn.symbols
        /\ DOMAIN callOut.signals = C18_Configured

\* an exception for the first symbol and "no setup" for the second, and the
\* third symbol still gives its signal
C18_Witness ==
    /\ callOut # None
    /\ Len(callIn.symbols) = MaxSymbols
    /\ Cardinality(C18_Configured) = MaxSymbols
    /\ callIn.answers[1] = "raises"
    /\ callIn.answers[2] = "none"
    /\ callIn.answers[MaxSymbols] = "signal"
    /\ callOut.signals[callIn.symbols[1]] = NoSignal
    /\ callOut.signals[callIn.symbols[MaxSymbols]].signal


C20_GapsReturned ==
    /\ poiOut # None
    /\ poiOut.detector = "fair_value_gaps"
    /\ ~poiOut.raised

\* the price a gap is measured against: the lower edge of a bullish gap,
\* the upper edge of a bearish one
C20_Base(poi) ==
    IF poi.direction = "bullish" THEN poi.price_low ELSE poi.price_high

\* C20: no fair value gap smaller than the minimum percentage of price
\* (0.1%) is ever returned, and none with a zero or negative gap size
\* (price_high <= price_low).
C20_ReturnedGapsReachMinimum ==
    C20_GapsReturned =>
        \A k \in 1..Len(poiOut.list) :
            LET poi == poiOut.list[k]
            IN  /\ poi.price_high > poi.price_low
                /\ (poi.price_high - poi.price_low) * 1000 >= C20_Base(poi)

\* the series holds a positive gap below the minimum, which is left out,
\* next to a gap that is returned
C20_Witness ==
    /\ C20_GapsReturned
    /\ Len(poiOut.list) > 0
    /\ \E i \in 2..(Len(candles) - 1) :
           /\ GapTop(candles, i, poiOut.direction)
                  > GapBottom(candles, i, poiOut.direction)
           /\ ~IsFairValueGap(candles, i, poiOut.direction)
           /\ \A k \in 1..Len(poiOut.list) :
                  poiOut.list[k].candle_index # i - 1


(***************************************************************************)
(* Claims about the outcome of a detection call (SpecPOI).                 *)
(***************************************************************************)
C21_DetectorCalled ==
    /\ poiOut # None
    /\ poiOut.detector \in {"order_blocks", "fair_value_gaps"}

\* C21: for any candle series and any inducement_index and
\* structure_break_index arguments, the defaults included,
\* detect_order_blocks and detect_fair_value_gaps return a list (empty when
\* there is no candidate) and never raise an error.
C21_DetectorsNeverRaise == C21_DetectorCalled => ~poiOut.raised


(***************************************************************************)
(* Claims about the order-type decision (SpecScan).                        *)
(***************************************************************************)
C22_WithinTolerance ==
    /\ C1_Returned
    /\ Abs(scanOut.current_price - scanOut.entry_price)
           <= OrderTolerancePips * TicksPerPip

C23_Sized ==
    /\ sizeOut # None
    /\ sizeIn.infoOk /\ sizeIn.symOk
    /\ sizeIn.entry # sizeIn.stop
    /\ sizeIn.step # 0

\* the lot size after the account and global limits, before rounding
C23_ClampedLotSize ==
    MinQ(MaxQ(MIN_LOT_SIZE,
              MinQ(ConnectorCalculateLotSize(sizeIn.balance, sizeIn.riskPct,
                                             Abs(sizeIn.entry - sizeIn.stop)),
                   sizeIn.accMaxLot)),
         MAX_LOT_SIZE)

\* C23: the lot size calculate_position_size returns is rounded down to the
\* lot step: it is an integer multiple of the symbol's lot step and never
\* larger than the clamped, unrounded lot size.
C23_RoundedDownToStep ==
    C23_Sized =>
        /\ sizeOut.lot % sizeIn.step = 0
        /\ sizeOut.lot * C23_ClampedLotSize.d <= C23_ClampedLotSize.n


(***************************************************************************)
(* Claims about the reason of a rejection (SpecScan).                      *)
(***************************************************************************)
C24_Rejected == scanOut = NoSignal

C25_DeliveredAtMostOnce ==
    \A i \in DOMAIN delivered : delivered[i].times <= 1

(***************************************************************************)
(* Claims about banning (SpecBan).                                         *)
(***************************************************************************)
\* C26: while a user's role is BANNED, distribute_signal never places an
\* order on an account that user owns, whatever the user did after the ban
C26_BannedNeverExecuted ==
    \A e \in executions : e.role # "banned"

\* C27: a user who holds the ADMIN role never becomes BANNED and never loses
\* the ADMIN role, under any sequence of ban and unban operations
C27_AdminStaysAdmin ==
    [][\A u \in UserIds : roles[u] = "admin" => roles'[u] = "admin"]_vars

\* the half of C27 the code keeps: no ban turns an admin into a banned user
C27_AdminNeverBanned ==
    [][\A u \in UserIds : roles[u] = "admin" => roles'[u] # "banned"]_vars

(***************************************************************************)
(* Claims about shutdown (SpecShut).                                       *)
(***************************************************************************)
\* C28: once shutdown has been initiated (running false, the event set) no
\* background loop begins a new unit of work
C28_NoUnitAfterShutdown ==
    \A u \in started : u.running

(***************************************************************************)
(* Claims about connectors (SpecConn).                                     *)
(***************************************************************************)
\* C29: making or testing a connector for one account changes neither the
\* shared settings nor the credentials of a connector cached for another
\* account: every cached connector connects with its own account's
\* credentials
C29_ConnectorsKeepOwnCredentials ==
    /\ configs["settings"] = EnvCredentials
    /\ \A a \in DOMAIN active_connections :
          ConnectCredentials(configs, active_connections[a]) = CredentialsOf(a)

(***************************************************************************)
(* Claims about the rate limiter (SpecLim).                                *)
(***************************************************************************)
\* the deque of user u holds only times of calls that were allowed
C30_OnlyAllowedRecorded(u) ==
    \E k \in 0..Len(recent[u]) :
        calls[u] = SubSeq(recent[u], k + 1, Len(recent[u]))

\* a call that was denied left no entry: the deque is what was there before,
\* less the entries that had left the window
C30_DeniedNotRecorded ==
    (limitOut # None /\ limitOut.method = "is_allowed" /\ limitOut.result = FALSE)
        => /\ Len(limitOut.before) >= max_calls
           /\ \E k \in 0..Len(limitOut.before) :
                 calls[limitOut.user_id] =
                    SubSeq(limitOut.before, k + 1, Len(limitOut.before))

=============================================================================
